---- MODULE Spec2Model ----
(***************************************************************************)
(* A model of MetaDataScraper: the file reorganizer of batch_scraper.py    *)
(* (output mode and in-place mode), the filename parser and subtitle       *)
(* language detector it uses, and the catalog resolver of src/app/graph.py *)
(* with the web-search adapter of src/adapters/google_search.py; the loops  *)
(* of BatchMediaScraper.run over the show units; the nodes of the metadata *)
(* graph after the resolver, run superstep by superstep along the edges of *)
(* create_graph; and the request loops of the TMDB and OMDB adapters.      *)
(* Further parts: the tag translator with its cache, the scan of the input *)
(* directory, the start of a pipeline run by the batch driver, a call of   *)
(* the record translator, and the parser and the language detector applied *)
(* to a file name.                                                         *)
(* Whole runs: the resolver followed by the pipeline, and the pipeline     *)
(* followed by the output-mode reorganizer on the show directory; the      *)
(* episode map on lists of any shape; the multi-mode run with several      *)
(* descriptor files in one subdirectory.                                   *)
(*                                                                         *)
(* File names are sequences of tokens separated by the separators of the   *)
(* real names (".", " ", " - "): a word, an SxxEyy token, an NxM token, a  *)
(* "Season N" token or an "Episode N" token.  Words are looked up in a     *)
(* table of their characters, so that the substring tests of the source    *)
(* are computed and not assumed.                                           *)
(***************************************************************************)
EXTENDS Integers, Sequences, FiniteSets, TLC

\* ------------------------------------------------------------------ bounds
\* the largest number of video and subtitle files in a show directory
MaxFiles == 3
\* the largest catalog identifier
MaxId == 2
\* the largest number of results of one catalog search
MaxResults == 2
\* the largest number of catalog URLs on one web-search result page
MaxUrls == 2
\* the largest number of show units under the input directory
MaxUnits == 3
\* the largest number of regular seasons of a show, and of episodes of a season
MaxSeasons == 2
MaxEpisodes == 2

None == [k |-> "none", s |-> 0, e |-> 0]

\* ------------------------------------------------------------------ tokens
Word(w) == [k |-> "W", s |-> 0, e |-> 0, w |-> w]
SE(s, e) == [k |-> "SE", s |-> s, e |-> e, w |-> ""]
NxM(s, e) == [k |-> "X", s |-> s, e |-> e, w |-> ""]
SeasonTok(s) == [k |-> "SEASON", s |-> s, e |-> 0, w |-> ""]
EpisodeTok(e) == [k |-> "EP", s |-> 0, e |-> e, w |-> ""]

\* the characters of the words and extensions of the vocabulary
Chars(w) ==
    CASE w = "show" -> <<"s", "h", "o", "w">>
      [] w = "Friends" -> <<"F", "r", "i", "e", "n", "d", "s">>
      [] w = "Pilot" -> <<"P", "i", "l", "o", "t">>
      [] w = "Two" -> <<"T", "w", "o">>
      [] w = "special" -> <<"s", "p", "e", "c", "i", "a", "l">>
      [] w = "720p" -> <<"7", "2", "0", "p">>
      [] w = "en" -> <<"e", "n">>
      [] w = "EN" -> <<"E", "N">>
      [] w = "zh" -> <<"z", "h">>
      [] w = "ja" -> <<"j", "a">>
      [] w = "jp" -> <<"j", "p">>
      [] w = "eng" -> <<"e", "n", "g">>
      [] w = "chs" -> <<"c", "h", "s">>
      [] w = "srt" -> <<"s", "r", "t">>
      [] w = "ass" -> <<"a", "s", "s">>
      [] w = "mkv" -> <<"m", "k", "v">>
      [] w = "mp4" -> <<"m", "p", "4">>
      [] w = "/" -> <<"/">>
      [] w = ":" -> <<":">>
      [] OTHER -> <<>>

\* str.lower() on one character
Lower(c) ==
    CASE c = "F" -> "f" [] c = "P" -> "p" [] c = "T" -> "t"
      [] c = "E" -> "e" [] c = "N" -> "n" [] OTHER -> c

LowerChars(w) == [i \in 1..Len(Chars(w)) |-> Lower(Chars(w)[i])]

\* `indicator in filename_lower` for a filename part whose characters are cs
IsSubstring(ind, cs) ==
    \E i \in 1..(Len(cs) - Len(ind) + 1) :
        \A j \in 1..Len(ind) : cs[i + j - 1] = ind[j]

\* the ASCII entries of the three indicator lists
chinese_indicators ==
    { <<"z", "h">>, <<"c", "h", "n">>, <<"c", "h", "i", "n", "e", "s", "e">>,
      <<"s", "i", "m", "p", "l", "i", "f", "i", "e", "d">>,
      <<"t", "r", "a", "d", "i", "t", "i", "o", "n", "a", "l">>,
      <<"s", "c">>, <<"t", "c">>, <<"z", "n">> }
english_indicators ==
    { <<"e", "n">>, <<"e", "n", "g">>, <<"e", "n", "g", "l", "i", "s", "h">>,
      <<"u", "s">>, <<"u", "k">>, <<"a", "m", "e", "r", "i", "c", "a", "n">>,
      <<"b", "r", "i", "t", "i", "s", "h">> }
japanese_indicators ==
    { <<"j", "p">>, <<"j", "p", "n">>, <<"j", "a", "p", "a", "n", "e", "s", "e">>,
      <<"j", "a">>, <<"n", "i", "h", "o", "n", "g", "o">> }

\* the lower-cased text of one token, as characters
TokenChars(t) ==
    CASE t.k = "W" -> LowerChars(t.w)
      [] t.k = "SE" -> <<"s", "0", "0", "e", "0", "0">>
      [] t.k = "X" -> <<"0", "x", "0">>
      [] t.k = "SEASON" -> <<"s", "e", "a", "s", "o", "n", " ", "0">>
      [] t.k = "EP" -> <<"e", "p", "i", "s", "o", "d", "e", " ", "0">>
      [] OTHER -> <<>>

\* any(indicator in filename_lower for indicator in indicators), for the file
\* name made of the tokens of name and the extension ext
AnyIndicator(indicators, name, ext) ==
    \E ind \in indicators :
        \/ \E i \in 1..Len(name) : IsSubstring(ind, TokenChars(name[i]))
        \/ IsSubstring(ind, LowerChars(ext))

\* a detector that tests the English list before the Chinese list
DetectEnglishFirst(name, ext) ==
    IF AnyIndicator(english_indicators, name, ext) THEN "en"
    ELSE IF AnyIndicator(chinese_indicators, name, ext) THEN "zh"
    ELSE IF AnyIndicator(japanese_indicators, name, ext) THEN "ja"
    ELSE ""

_detect_subtitle_language(name, ext) ==
    IF AnyIndicator(chinese_indicators, name, ext) THEN "zh"
    ELSE IF AnyIndicator(english_indicators, name, ext) THEN "en"
    ELSE IF AnyIndicator(japanese_indicators, name, ext) THEN "ja"
    ELSE ""

\* the suffix as the tokens it adds to the stem: ".zh" is one more word
_get_subtitle_language_suffix(name, ext) ==
    LET language == _detect_subtitle_language(name, ext)
    IN  IF language # "" THEN <<Word(language)>> ELSE <<>>

\* ---------------------------------------------------------- filename parser
\* the position of the leftmost token of kind k, 0 when there is none
FirstOfKind(name, k) ==
    IF \E i \in 1..Len(name) : name[i].k = k
    THEN CHOOSE i \in 1..Len(name) :
            /\ name[i].k = k
            /\ \A j \in 1..(i - 1) : name[j].k # k
    ELSE 0

\* r'Season\s*(\d{1,2}).*Episode\s*(\d{1,2})': the leftmost Season token that
\* has an Episode token after it, and (greedy .*) the last such Episode token
SeasonEpisodeMatch(name) ==
    LET starts == { i \in 1..Len(name) :
                      /\ name[i].k = "SEASON"
                      /\ \E j \in (i + 1)..Len(name) : name[j].k = "EP" }
    IN  IF starts = {} THEN None
        ELSE LET i == CHOOSE x \in starts : \A y \in starts : x <= y
                 j == CHOOSE x \in (i + 1)..Len(name) :
                        /\ name[x].k = "EP"
                        /\ \A y \in (x + 1)..Len(name) : name[y].k # "EP"
             IN  [k |-> "key", s |-> name[i].s, e |-> name[j].e]

\* the parser with a default of season 1, episode 1 for a name that matches
\* no pattern
ParseWithDefault(name) ==
    LET se == FirstOfKind(name, "SE")
        nx == FirstOfKind(name, "X")
        sn == SeasonEpisodeMatch(name)
        ep == FirstOfKind(name, "EP")
    IN  IF se # 0 THEN [k |-> "key", s |-> name[se].s, e |-> name[se].e]
        ELSE IF nx # 0 THEN [k |-> "key", s |-> name[nx].s, e |-> name[nx].e]
        ELSE IF sn # None THEN sn
        ELSE IF ep # 0 THEN [k |-> "key", s |-> 1, e |-> name[ep].e]
        ELSE [k |-> "key", s |-> 1, e |-> 1]

\* a parser in which the leftmost SxxEyy or NxM token decides
ParseLeftmostToken(name) ==
    LET se == FirstOfKind(name, "SE")
        nx == FirstOfKind(name, "X")
        sn == SeasonEpisodeMatch(name)
        ep == FirstOfKind(name, "EP")
    IN  IF se # 0 /\ (nx = 0 \/ se < nx)
        THEN [k |-> "key", s |-> name[se].s, e |-> name[se].e]
        ELSE IF nx # 0 THEN [k |-> "key", s |-> name[nx].s, e |-> name[nx].e]
        ELSE IF sn # None THEN sn
        ELSE IF ep # 0 THEN [k |-> "key", s |-> 1, e |-> name[ep].e]
        ELSE None

_parse_episode_info(name) ==
    LET se == FirstOfKind(name, "SE")
        nx == FirstOfKind(name, "X")
        sn == SeasonEpisodeMatch(name)
        ep == FirstOfKind(name, "EP")
    IN  IF se # 0 THEN [k |-> "key", s |-> name[se].s, e |-> name[se].e]
        ELSE IF nx # 0 THEN [k |-> "key", s |-> name[nx].s, e |-> name[nx].e]
        ELSE IF sn # None THEN sn
        ELSE IF ep # 0 THEN [k |-> "key", s |-> 1, e |-> name[ep].e]
        \* the delimiter-anchored patterns match a subset of what the first
        \* two patterns match, so nothing is left for them here
        ELSE None

\* re.search(r'S\d{1,2}E\d{1,2}', filename, re.IGNORECASE)
HasSxxExx(name) == FirstOfKind(name, "SE") # 0


\* ============================================================ file reorganizer
VARIABLES
    mode,                \* "copy" | "move" (output mode) | "inplace"
    disk,                \* the media files on disk: [p |-> path, c |-> content]
    show_exists,         \* the original show directory exists
    show_title,          \* normalized title_zh / title, as tokens
    episodes_data,       \* source_data["episodes"]
    translated_episodes, \* source_data["translated_episodes"]
    video_files,         \* the videos found by rglob, in rglob's order
    subtitle_files,      \* the subtitles found by rglob, in rglob's order
    pc,                  \* the position in the run
    vi,                  \* index of the video of the outer loop
    sj,                  \* index of the subtitle of the running subtitle loop
    moved_files,         \* str(path) of every file moved or copied
    failed_moves,
    renamed_count,
    skipped_count,
    run,                 \* the number of the run on this directory
    discovered,          \* history: the files the first run found
    moves,               \* history: shutil.move / copy2 calls of this run
    io_failures,         \* history: such calls of this run that raised
    visited,             \* history: the files this run has looked at
    written,             \* history: [src, dst] of every successful call
    clean,               \* history: no call of an earlier run raised
    rmtree_result        \* history: "none", or how the rmtree call ended

reorgVars ==
    << mode, disk, show_exists, show_title, episodes_data, translated_episodes,
       video_files, subtitle_files, pc, vi, sj, moved_files, failed_moves,
       renamed_count, skipped_count, run, discovered, moves, io_failures,
       visited, written, clean, rmtree_result >>

\* ------------------------------------------------------------------- paths
\* a path below the show directory ("show") or the output media_dir ("media");
\* season 0 is the root itself, season n > 0 the directory "Season nn"
Path(root, season, name, ext) ==
    [root |-> root, season |-> season, name |-> name, ext |-> ext]

video_extensions == {"mkv", "mp4"}
subtitle_extensions == {"srt", "ass"}

Exists(d, p) == \E x \in d : x.p = p
ContentAt(d, p) == (CHOOSE x \in d : x.p = p).c

\* shutil.move(src, dst): dst is replaced, src is gone; src = dst is a no-op
ShutilMove(d, src, dst) ==
    IF src = dst THEN d
    ELSE { x \in d : x.p # src /\ x.p # dst } \cup {[p |-> dst, c |-> ContentAt(d, src)]}

\* shutil.copy2(src, dst): dst is replaced, src stays
ShutilCopy2(d, src, dst) ==
    { x \in d : x.p # dst } \cup {[p |-> dst, c |-> ContentAt(d, src)]}

\* shutil.rmtree(show_path)
ShutilRmtree(d) == { x \in d : x.p.root # "show" }

\* the outcomes of one move or copy call on an existing source; a call on a
\* source that is gone always raises
IoOutcomes(d, src) == IF Exists(d, src) THEN {"ok", "io_error"} ELSE {"io_error"}
MkdirOutcomes == {"ok", "mkdir_error"}

\* ----------------------------------------------------------- episode map
Key(s, e) == [k |-> "key", s |-> s, e |-> e]
KeyOf(ep) == Key(ep.season_number, ep.episode_number)

\* the map in which the first entry of a key is kept
RECURSIVE BuildMapFirstWins(_, _)
BuildMapFirstWins(eps, m) ==
    IF eps = <<>> THEN m
    ELSE LET ep == Head(eps)
             k == KeyOf(ep)
         IN  BuildMapFirstWins(Tail(eps),
                 [x \in DOMAIN m \cup {k} |-> IF x \in DOMAIN m THEN m[x] ELSE ep])

\* episode_map[(season_num, episode_num)] = episode, in list order
RECURSIVE BuildMap(_, _)
BuildMap(eps, m) ==
    IF eps = <<>> THEN m
    ELSE LET ep == Head(eps)
             k == KeyOf(ep)
         IN  BuildMap(Tail(eps),
                 [x \in DOMAIN m \cup {k} |-> IF x = k THEN ep ELSE m[x]])

\* the translated entries update name_zh of the keys the map already has
RECURSIVE ApplyTranslated(_, _)
ApplyTranslated(trs, m) ==
    IF trs = <<>> THEN m
    ELSE LET tr == Head(trs)
             k == KeyOf(tr)
         IN  ApplyTranslated(Tail(trs),
                 IF k \in DOMAIN m
                 THEN [m EXCEPT ![k].name_zh =
                          IF tr.has_name_zh THEN tr.name_zh ELSE tr.name]
                 ELSE m)

EmptyMap == [x \in {} |-> 0]
episode_map == ApplyTranslated(translated_episodes, BuildMap(episodes_data, EmptyMap))

\* episode_map.get((season_num, episode_num)) is truthy
HasEpisode(info) == info # None /\ info \in DOMAIN episode_map

\* episode_data.get("name_zh") or episode_data.get("name", f"Episode {n}")
EpisodeTitle(ep) ==
    IF ep.name_zh # <<>> THEN ep.name_zh
    ELSE IF ep.has_name THEN ep.name
    ELSE <<EpisodeTok(ep.episode_number)>>

\* a title with '/' is cut before it; otherwise the characters \:*?"<>| go
invalid_chars == {":"}
SafeEpisodeTitle(title) ==
    IF \E i \in 1..Len(title) : title[i] = Word("/")
    THEN LET i == CHOOSE x \in 1..Len(title) :
                    /\ title[x] = Word("/")
                    /\ \A y \in 1..(x - 1) : title[y] # Word("/")
         IN  SubSeq(title, 1, i - 1)
    ELSE SelectSeq(title, LAMBDA t : ~(t.k = "W" /\ t.w \in invalid_chars))

\* f"{show_title} - S{season_num:02d}E{episode_num:02d} - {safe_episode_title}"
NewStem(info) ==
    show_title \o <<SE(info.s, info.e)>> \o SafeEpisodeTitle(EpisodeTitle(episode_map[info]))


\* ------------------------------------------------------------ the inputs
Show(name, ext) == Path("show", 0, name, ext)

VideoPool ==
    { Show(<<Word("show"), SE(1, 1)>>, "mkv"),
      Show(<<Word("show"), SE(1, 1)>>, "mp4"),
      Show(<<Word("show"), SE(1, 1), Word("720p")>>, "mkv"),
      Show(<<Word("show"), SE(2, 1)>>, "mkv"),
      Show(<<Word("special")>>, "mkv") }

SubtitlePool ==
    { Show(<<Word("show"), SE(1, 1)>>, "srt"),
      Show(<<Word("show"), SE(1, 1), Word("en")>>, "srt"),
      Show(<<Word("show"), SE(1, 1), Word("ja")>>, "srt"),
      Show(<<Word("special")>>, "srt") }

FilePool == VideoPool \cup SubtitlePool

Episode(s, e, name, name_zh) ==
    [season_number |-> s, episode_number |-> e, name |-> name, has_name |-> TRUE,
     name_zh |-> name_zh, has_name_zh |-> name_zh # <<>>]

\* the episode lists the pipeline hands over: none, or season 1 with two
\* episodes of which the first has a translated name
EpisodeLists ==
    << <<>>,
       << Episode(1, 1, <<Word("Pilot")>>, <<>>), Episode(1, 2, <<Word("Two")>>, <<>>) >> >>
TranslatedLists ==
    << <<>>,
       << Episode(1, 1, <<Word("Pilot")>>, <<Word("Pilot")>>) >> >>

ShowTitles == { <<Word("show")>>, <<Word("Friends")>> }

\* every order in which rglob may yield the files of S
Orderings(S) ==
    { f \in [1..Cardinality(S) -> S] : \A i, j \in 1..Cardinality(S) : i # j => f[i] # f[j] }

\* ----------------------------------------------------- the control points
NextVideo(i) ==
    IF i <= Len(video_files) THEN <<"video", i, 1>>
    ELSE IF Len(subtitle_files) >= 1 THEN <<"remain", i, 1>>
    ELSE <<"finish", i, 1>>
NextMatch(i, j) ==
    IF j <= Len(subtitle_files) THEN <<"match", i, j>> ELSE NextVideo(i + 1)
NextRemain(i, j) ==
    IF j <= Len(subtitle_files) THEN <<"remain", i, j>> ELSE <<"finish", i, j>>
Goto(t) == pc' = t[1] /\ vi' = t[2] /\ sj' = t[3]

IsOutputMode == mode \in {"copy", "move"}
InMovedFiles(p) == \E i \in 1..Len(moved_files) : moved_files[i] = p

\* the call the mode makes, on the disk
Transfer(d, src, dst) ==
    IF mode = "copy" THEN ShutilCopy2(d, src, dst) ELSE ShutilMove(d, src, dst)

\* ============================================================ catalog resolver
VARIABLES
    input,       \* state.input of the pipeline run
    rpc,         \* the stage the pipeline is at
    search,      \* state.search as written by search_node
    selected,    \* state.search["selected"]
    error,       \* the exception that ended the run, "" when none
    calls,       \* history: the catalog and web-search calls made, in order
    g_use_api,   \* GoogleSearchAdapter.use_api of the temporary adapter
    g_attempt,   \* attempt of the loop of _search_with_crawler
    g_outcome,   \* history: what the last request of the web search met
    g_result     \* what search_tmdb_id returned or raised

resolveVars ==
    << input, rpc, search, selected, error, calls, g_use_api, g_attempt,
       g_outcome, g_result >>

\* ------------------------------------------------------------ batch driver
VARIABLES
    batch_mode,          \* the branch of BatchMediaScraper.run: "output", "inplace", "multi"
    use_local_nfo,       \* self.use_local_nfo
    unit_kind,           \* unit -> "organized", "group", "subdir", "loose"
    nfo_tasks,           \* the subdirectories whose NFO files hold a TMDB ID, in order
    subdirs,             \* the subdirectories still to be processed as plain ones
    bpc,                 \* the loop of run / _run_multi_mode that is executing
    bi,                  \* index of the next unit of that loop
    processed_count,
    failed_count,
    invocations,         \* history: unit -> number of self.app.invoke calls made for it
    file_ops,            \* history: unit -> number of steps that moved or renamed its files
    status               \* history: unit -> how its last processing ended

batchVars ==
    << batch_mode, use_local_nfo, unit_kind, nfo_tasks, subdirs, bpc, bi,
       processed_count, failed_count, invocations, file_ops, status >>

\* the driver at rest, for the runs that are about one reorganization or one resolution
BatchIdle ==
    /\ batch_mode = "idle"
    /\ use_local_nfo = FALSE
    /\ unit_kind = << >>
    /\ nfo_tasks = << >>
    /\ subdirs = << >>
    /\ bpc = "idle"
    /\ bi = 1
    /\ processed_count = 0
    /\ failed_count = 0
    /\ invocations = << >>
    /\ file_ops = << >>
    /\ status = << >>

\* ------------------------------------------------------- metadata pipeline
VARIABLES
    skip_images,         \* MediaMetadataGraph.skip_images
    translate_enabled,   \* input["translate"]
    target_language,     \* input["language"]
    world,               \* what the catalogs and the translator answer in this run
    source_data,         \* GraphState.source_data
    normalized,          \* GraphState.normalized
    artwork,             \* GraphState.artwork
    nfo,                 \* GraphState.nfo
    output,              \* GraphState.output
    active,              \* the nodes of the superstep that is executing
    finished,            \* those of them that have returned
    pending,             \* their updates, merged when all have returned
    ran,                 \* history: node -> number of times it was started
    perr,                \* the exception that ended app.invoke, "" when none
    files_written,       \* history: what the stages wrote under the output directory
    requests             \* history: the detail requests of fetch_node, in order

pipeVars ==
    << skip_images, translate_enabled, target_language, world, source_data, normalized,
       artwork, nfo, output, active, finished, pending, ran, perr, files_written,
       requests >>

\* no pipeline is running
PipeIdle ==
    /\ skip_images = FALSE
    /\ translate_enabled = FALSE
    /\ target_language = ""
    /\ world = << >>
    /\ source_data = << >>
    /\ normalized = << >>
    /\ artwork = << >>
    /\ nfo = << >>
    /\ output = << >>
    /\ active = {}
    /\ finished = {}
    /\ pending = << >>
    /\ ran = << >>
    /\ perr = ""
    /\ files_written = {}
    /\ requests = << >>

\* ------------------------------------------------------- provider adapters
VARIABLES
    net_provider,        \* the adapter that is called: "tmdb" or "omdb"
    net_call,            \* "details" for the get_*_details methods, "plain" for the others
    preferred_language,  \* TMDBAdapter.preferred_language
    net_lang,            \* index in language_priority of the locale being tried, 0 in a plain call
    net_attempt,         \* attempt of the loop of _make_request
    net_log,             \* history: the requests sent, in order, with their outcomes
    net_result           \* "" while the call runs, then "ok" or the exception it raised

netVars ==
    << net_provider, net_call, preferred_language, net_lang, net_attempt, net_log,
       net_result >>

\* no adapter call is running
NetIdle ==
    /\ net_provider = ""
    /\ net_call = ""
    /\ preferred_language = ""
    /\ net_lang = 0
    /\ net_attempt = 0
    /\ net_log = << >>
    /\ net_result = ""

\* ---- the tag translator and its cache (src/src/core/translator.py,
\* ---- src/src/core/tag_cache.py)
VARIABLES
    tag_cache,           \* TagCacheManager.cache: entries [key, original, translation, recent]
    tag_calls,           \* history: the number of translate_tags calls made
    tag_input,           \* history: the list the last call was given
    tag_sent,            \* history: the list the last call sent to the model
    tag_outcome,         \* history: "" without a request, or how the request ended
    tag_result           \* history: the list the last call returned

tagVars == << tag_cache, tag_calls, tag_input, tag_sent, tag_outcome, tag_result >>

\* an empty cache and no call made
TagIdle ==
    /\ tag_cache = {}
    /\ tag_calls = 0
    /\ tag_input = << >>
    /\ tag_sent = << >>
    /\ tag_outcome = ""
    /\ tag_result = << >>

\* ---- the scan of the input directory (src/batch_scraper.py, scan_directory)
VARIABLES
    inplace_rename,      \* BatchScraper.inplace_rename
    scan_seen,           \* history: the entries root_dir.iterdir() has given, in order
    organized_shows,     \* the positions in scan_seen appended to organized_shows
    scattered_episodes   \* the positions in scan_seen appended to scattered_episodes

scanVars == << inplace_rename, scan_seen, organized_shows, scattered_episodes >>

\* no scan is running
ScanIdle ==
    /\ inplace_rename = FALSE
    /\ scan_seen = << >>
    /\ organized_shows = << >>
    /\ scattered_episodes = << >>

\* ---- the start of a pipeline run by the batch driver (src/batch_scraper.py)
VARIABLES
    q_entry,             \* history: the driver function that started the run, "" before
    q_name,              \* history: the directory or group name the run was started for
    q_local_id           \* history: local_tmdb_id of the driver, << >> for None

queryVars == << q_entry, q_name, q_local_id >>

\* the driver has started no run
QueryIdle ==
    /\ q_entry = ""
    /\ q_name = << >>
    /\ q_local_id = << >>

\* ---- a call of the record translator (src/src/core/translator.py,
\* ---- LLMTranslator.translate_metadata)
VARIABLES
    tr_data,             \* the record translate_metadata is given
    tr_called,           \* history: translate_metadata has returned
    tr_ok,               \* history: the model answered the requests of the call
    tr_result,           \* the record translate_metadata returned
    tr_requests          \* history: the number of session.post calls of the call

trVars == << tr_data, tr_called, tr_ok, tr_result, tr_requests >>

\* no record has been given to the translator
TrIdle ==
    /\ tr_data = << >>
    /\ tr_called = FALSE
    /\ tr_ok = FALSE
    /\ tr_result = << >>
    /\ tr_requests = 0

\* ---- a file name given to the parser and to the language detector
\* ---- (src/batch_scraper.py)
VARIABLES
    nm_name,             \* the tokens of the file name
    nm_ext,              \* its extension
    nm_parse_done,       \* history: _parse_episode_info has returned
    nm_parsed,           \* what _parse_episode_info returned
    nm_detect_done,      \* history: _detect_subtitle_language has returned
    nm_language          \* what _detect_subtitle_language returned

nameVars == << nm_name, nm_ext, nm_parse_done, nm_parsed, nm_detect_done, nm_language >>

\* no file name has been given
NameIdle ==
    /\ nm_name = << >>
    /\ nm_ext = ""
    /\ nm_parse_done = FALSE
    /\ nm_parsed = None
    /\ nm_detect_done = FALSE
    /\ nm_language = ""

\* ---- the cross-reference lookup of the resolver (src/src/app/graph.py)
VARIABLES
    find_result          \* history: what find_by_imdb_id answered, << >> before

findVars == << find_result >>

\* no cross-reference lookup was made
FindIdle == find_result = << >>

laterVars == << tagVars, scanVars, queryVars, trVars, nameVars, findVars >>
LaterIdle == TagIdle /\ ScanIdle /\ QueryIdle /\ TrIdle /\ NameIdle /\ FindIdle

extVars == << batchVars, pipeVars, netVars, laterVars >>
ExtIdle == BatchIdle /\ PipeIdle /\ NetIdle /\ LaterIdle

vars == << reorgVars, resolveVars, extVars >>

\* what no step of a reorganizer run changes: its inputs, and the resolver
inputVars ==
    << mode, show_title, episodes_data, translated_episodes, discovered, resolveVars,
       extVars >>

NoCandidate == [id |-> 0, media_type |-> ""]
NoSearch == [results |-> <<>>, performed_search_type |-> "", skip_search |-> FALSE]
NoResult == [raised |-> "", id |-> 0]
NoOutcome == [kind |-> "none", page |-> <<>>]

\* the resolver at rest, for the runs that are about the reorganizer
ResolveIdle ==
    /\ input = [query |-> "", tmdb_id |-> 0, omdb_id |-> "", media_type |-> "",
                media_type_forced |-> FALSE, aid_search |-> FALSE]
    /\ rpc = "idle"
    /\ search = NoSearch
    /\ selected = NoCandidate
    /\ error = ""
    /\ calls = <<>>
    /\ g_use_api = FALSE
    /\ g_attempt = 0
    /\ g_outcome = NoOutcome
    /\ g_result = NoResult


InitReorg ==
    /\ ResolveIdle
    /\ ExtIdle
    /\ mode \in {"copy", "move", "inplace"}
    /\ \E files \in SUBSET FilePool :
          /\ Cardinality(files) <= MaxFiles
          /\ disk = { [p |-> f, c |-> f] : f \in files }
          /\ discovered = files
    /\ show_exists = TRUE
    /\ show_title \in ShowTitles
    /\ \E i \in 1..Len(EpisodeLists) :
          /\ episodes_data = EpisodeLists[i]
          /\ translated_episodes = TranslatedLists[i]
    /\ video_files = <<>>
    /\ subtitle_files = <<>>
    /\ pc = "start"
    /\ vi = 1
    /\ sj = 1
    /\ moved_files = <<>>
    /\ failed_moves = 0
    /\ renamed_count = 0
    /\ skipped_count = 0
    /\ run = 1
    /\ moves = 0
    /\ io_failures = 0
    /\ visited = {}
    /\ written = {}
    /\ clean = TRUE
    /\ rmtree_result = "none"

\* the head of _organize_show_files and of _rename_files_inplace: return when
\* there is no episode data, else collect the videos and subtitles by rglob
Discover ==
    /\ pc = "start"
    /\ IF episodes_data = <<>>
       THEN /\ pc' = "returned"
            /\ UNCHANGED << vi, sj, video_files, subtitle_files >>
       ELSE LET found == { x.p : x \in { y \in disk : y.p.root = "show" } }
            IN  /\ \E vs \in Orderings({ p \in found : p.ext \in video_extensions }) :
                       video_files' = vs
                /\ \E ss \in Orderings({ p \in found : p.ext \in subtitle_extensions }) :
                       subtitle_files' = ss
                /\ pc' = IF \E p \in found : p.ext \in video_extensions THEN "video"
                         ELSE IF \E p \in found : p.ext \in subtitle_extensions THEN "remain"
                         ELSE "finish"
                /\ vi' = 1
                /\ sj' = 1
    /\ UNCHANGED << inputVars, disk, show_exists, moved_files, failed_moves,
                    renamed_count, skipped_count, run, moves, io_failures,
                    visited, written, clean, rmtree_result >>

\* the call with an except branch that only prints
OrgTransferUncounted(src, dst, outcome) ==
    /\ moves' = moves + 1
    /\ IF outcome = "ok"
       THEN /\ disk' = Transfer(disk, src, dst)
            /\ moved_files' = Append(moved_files, src)
            /\ written' = written \cup {[src |-> src, dst |-> dst]}
            /\ UNCHANGED << failed_moves, io_failures >>
       ELSE /\ io_failures' = io_failures + 1
            /\ UNCHANGED << disk, moved_files, written, failed_moves >>

\* one move or copy call of the output mode, inside its try: on success the
\* source is appended to moved_files, on an exception failed_moves grows
OrgTransfer(src, dst, outcome) ==
    /\ moves' = moves + 1
    /\ IF outcome = "ok"
       THEN /\ disk' = Transfer(disk, src, dst)
            /\ moved_files' = Append(moved_files, src)
            /\ written' = written \cup {[src |-> src, dst |-> dst]}
            /\ UNCHANGED << failed_moves, io_failures >>
       ELSE /\ failed_moves' = failed_moves + 1
            /\ io_failures' = io_failures + 1
            /\ UNCHANGED << disk, moved_files, written >>

NoTransfer == UNCHANGED << disk, moved_files, written, moves, io_failures >>

\* one iteration of `for video_file in video_files` up to the subtitle loop
OrgVideo ==
    /\ pc = "video"
    /\ IsOutputMode
    /\ LET video_file == video_files[vi]
           episode_info == _parse_episode_info(video_file.name)
       IN  /\ visited' = visited \cup {video_file}
           /\ IF ~HasEpisode(episode_info)
              THEN /\ failed_moves' = failed_moves + 1
                   /\ NoTransfer
                   /\ Goto(NextVideo(vi + 1))
              ELSE \E mk \in MkdirOutcomes :
                     IF mk # "ok"
                     THEN /\ pc' = "aborted"
                          /\ NoTransfer
                          /\ UNCHANGED << failed_moves, vi, sj >>
                     ELSE \E outcome \in IoOutcomes(disk, video_file) :
                            /\ OrgTransfer(video_file,
                                   Path("media", episode_info.s, NewStem(episode_info), video_file.ext),
                                   outcome)
                            /\ Goto(NextMatch(vi, 1))
    /\ UNCHANGED << inputVars, show_exists, video_files, subtitle_files,
                    renamed_count, skipped_count, run, clean, rmtree_result >>

\* one iteration of the subtitle loop inside the video loop
OrgMatchSubtitle ==
    /\ pc = "match"
    /\ IsOutputMode
    /\ LET video_file == video_files[vi]
           subtitle_file == subtitle_files[sj]
           episode_info == _parse_episode_info(video_file.name)
       IN  IF subtitle_file.name = video_file.name /\ ~InMovedFiles(subtitle_file)
           THEN /\ visited' = visited \cup {subtitle_file}
                /\ \E outcome \in IoOutcomes(disk, subtitle_file) :
                     OrgTransfer(subtitle_file,
                         Path("media", episode_info.s,
                              NewStem(episode_info)
                                \o _get_subtitle_language_suffix(subtitle_file.name, subtitle_file.ext),
                              subtitle_file.ext),
                         outcome)
           ELSE /\ NoTransfer
                /\ UNCHANGED << failed_moves, visited >>
    /\ Goto(NextMatch(vi, sj + 1))
    /\ UNCHANGED << inputVars, show_exists, video_files, subtitle_files,
                    renamed_count, skipped_count, run, clean, rmtree_result >>

\* one iteration of the loop over the remaining subtitle files
OrgRemainSubtitle ==
    /\ pc = "remain"
    /\ IsOutputMode
    /\ LET subtitle_file == subtitle_files[sj]
           episode_info == _parse_episode_info(subtitle_file.name)
       IN  IF InMovedFiles(subtitle_file)
           THEN /\ NoTransfer
                /\ UNCHANGED << failed_moves, visited >>
                /\ Goto(NextRemain(vi, sj + 1))
           ELSE /\ visited' = visited \cup {subtitle_file}
                /\ IF ~HasEpisode(episode_info)
                   THEN /\ failed_moves' = failed_moves + 1
                        /\ NoTransfer
                        /\ Goto(NextRemain(vi, sj + 1))
                   ELSE \E mk \in MkdirOutcomes :
                          IF mk # "ok"
                          THEN /\ pc' = "aborted"
                               /\ NoTransfer
                               /\ UNCHANGED << failed_moves, vi, sj >>
                          ELSE \E outcome \in IoOutcomes(disk, subtitle_file) :
                                 /\ OrgTransfer(subtitle_file,
                                        Path("media", episode_info.s, NewStem(episode_info),
                                             subtitle_file.ext),
                                        outcome)
                                 /\ Goto(NextRemain(vi, sj + 1))
    /\ UNCHANGED << inputVars, show_exists, video_files, subtitle_files,
                    renamed_count, skipped_count, run, clean, rmtree_result >>

\* the test without the failure count
AllMovedIgnoringFailures ==
    Len(moved_files) = Len(video_files) + Len(subtitle_files)

\* successfully_moved == total_files and failed_moves == 0
AllMoved ==
    /\ Len(moved_files) = Len(video_files) + Len(subtitle_files)
    /\ failed_moves = 0

\* the cleanup decision: rmtree inside its own try, or keep the directory
OrgFinish ==
    /\ pc = "finish"
    /\ IsOutputMode
    /\ IF AllMoved
       THEN \E rm \in {"ok", "rmtree_error"} :
              /\ rmtree_result' = rm
              /\ IF rm = "ok"
                 THEN disk' = ShutilRmtree(disk) /\ show_exists' = FALSE
                 ELSE UNCHANGED << disk, show_exists >>
       ELSE UNCHANGED << disk, show_exists, rmtree_result >>
    /\ pc' = "done"
    /\ UNCHANGED << inputVars, video_files, subtitle_files, vi, sj, moved_files,
                    failed_moves, renamed_count, skipped_count, run, moves,
                    io_failures, visited, written, clean >>


\* ------------------------------------------------------------ in-place mode
\* one rename of the in-place mode, inside its try: the move is skipped when
\* the file already has its name, renamed_count grows unless the move raised
InpRename(src, dst, outcome) ==
    IF src = dst
    THEN /\ renamed_count' = renamed_count + 1
         /\ UNCHANGED << disk, written, moves, io_failures >>
    ELSE /\ moves' = moves + 1
         /\ IF outcome = "ok"
            THEN /\ disk' = ShutilMove(disk, src, dst)
                 /\ written' = written \cup {[src |-> src, dst |-> dst]}
                 /\ renamed_count' = renamed_count + 1
                 /\ UNCHANGED io_failures
            ELSE /\ io_failures' = io_failures + 1
                 /\ UNCHANGED << disk, written, renamed_count >>

NoRename == UNCHANGED << disk, written, moves, io_failures, renamed_count >>

\* one iteration of `for video_file in video_files` up to the subtitle loop
InpVideo ==
    /\ pc = "video"
    /\ mode = "inplace"
    /\ LET video_file == video_files[vi]
           episode_info == _parse_episode_info(video_file.name)
       IN  /\ visited' = visited \cup {video_file}
           /\ IF ~HasSxxExx(video_file.name)
              THEN /\ skipped_count' = skipped_count + 1
                   /\ NoRename
                   /\ Goto(NextVideo(vi + 1))
              ELSE IF ~HasEpisode(episode_info)
              THEN /\ NoRename
                   /\ UNCHANGED skipped_count
                   /\ Goto(NextVideo(vi + 1))
              ELSE \E mk \in MkdirOutcomes :
                     IF mk # "ok"
                     THEN /\ pc' = "aborted"
                          /\ NoRename
                          /\ UNCHANGED << skipped_count, vi, sj >>
                     ELSE \E outcome \in IoOutcomes(disk, video_file) :
                            /\ InpRename(video_file,
                                   Path("show", episode_info.s, NewStem(episode_info), video_file.ext),
                                   outcome)
                            /\ UNCHANGED skipped_count
                            /\ Goto(NextMatch(vi, 1))
    /\ UNCHANGED << inputVars, show_exists, video_files, subtitle_files,
                    moved_files, failed_moves, run, clean, rmtree_result >>

\* one iteration of the subtitle loop inside the video loop
InpMatchSubtitle ==
    /\ pc = "match"
    /\ mode = "inplace"
    /\ LET video_file == video_files[vi]
           subtitle_file == subtitle_files[sj]
           episode_info == _parse_episode_info(video_file.name)
       IN  IF subtitle_file.name = video_file.name /\ Exists(disk, subtitle_file)
           THEN /\ visited' = visited \cup {subtitle_file}
                /\ \E outcome \in IoOutcomes(disk, subtitle_file) :
                     InpRename(subtitle_file,
                         Path("show", episode_info.s,
                              NewStem(episode_info)
                                \o _get_subtitle_language_suffix(subtitle_file.name, subtitle_file.ext),
                              subtitle_file.ext),
                         outcome)
           ELSE /\ NoRename
                /\ UNCHANGED visited
    /\ Goto(NextMatch(vi, sj + 1))
    /\ UNCHANGED << inputVars, show_exists, video_files, subtitle_files,
                    moved_files, failed_moves, skipped_count, run, clean, rmtree_result >>

\* one iteration of the loop over the remaining subtitle files
InpRemainSubtitle ==
    /\ pc = "remain"
    /\ mode = "inplace"
    /\ LET subtitle_file == subtitle_files[sj]
           episode_info == _parse_episode_info(subtitle_file.name)
       IN  IF ~Exists(disk, subtitle_file)
           THEN /\ NoRename
                /\ UNCHANGED << skipped_count, visited >>
                /\ Goto(NextRemain(vi, sj + 1))
           ELSE /\ visited' = visited \cup {subtitle_file}
                /\ IF ~HasSxxExx(subtitle_file.name)
                   THEN /\ skipped_count' = skipped_count + 1
                        /\ NoRename
                        /\ Goto(NextRemain(vi, sj + 1))
                   ELSE IF ~HasEpisode(episode_info)
                   THEN /\ NoRename
                        /\ UNCHANGED skipped_count
                        /\ Goto(NextRemain(vi, sj + 1))
                   ELSE \E mk \in MkdirOutcomes :
                          IF mk # "ok"
                          THEN /\ pc' = "aborted"
                               /\ NoRename
                               /\ UNCHANGED << skipped_count, vi, sj >>
                          ELSE \E outcome \in IoOutcomes(disk, subtitle_file) :
                                 /\ InpRename(subtitle_file,
                                        Path("show", episode_info.s,
                                             NewStem(episode_info)
                                               \o _get_subtitle_language_suffix(
                                                      subtitle_file.name, subtitle_file.ext),
                                             subtitle_file.ext),
                                        outcome)
                                 /\ UNCHANGED skipped_count
                                 /\ Goto(NextRemain(vi, sj + 1))
    /\ UNCHANGED << inputVars, show_exists, video_files, subtitle_files,
                    moved_files, failed_moves, run, clean, rmtree_result >>

\* the summary line and the rename of the show directory itself (in its own
\* try); the paths of the model are relative to that directory
InpFinish ==
    /\ pc = "finish"
    /\ mode = "inplace"
    /\ pc' = "done"
    /\ UNCHANGED << inputVars, disk, show_exists, video_files, subtitle_files,
                    vi, sj, moved_files, failed_moves, renamed_count,
                    skipped_count, run, moves, io_failures, visited, written, clean, rmtree_result >>

\* the tool is run a second time, with the same metadata, on the directory
\* the first run left
RunAgain ==
    /\ pc = "done"
    /\ mode = "inplace"
    /\ run = 1
    /\ run' = run + 1
    /\ clean' = (clean /\ io_failures = 0)
    /\ pc' = "start"
    /\ vi' = 1
    /\ sj' = 1
    /\ video_files' = <<>>
    /\ subtitle_files' = <<>>
    /\ renamed_count' = 0
    /\ skipped_count' = 0
    /\ moves' = 0
    /\ io_failures' = 0
    /\ visited' = {}
    /\ UNCHANGED << inputVars, disk, show_exists, moved_files, failed_moves, written,
                    rmtree_result >>

NextReorg ==
    \/ Discover
    \/ OrgVideo
    \/ OrgMatchSubtitle
    \/ OrgRemainSubtitle
    \/ OrgFinish
    \/ InpVideo
    \/ InpMatchSubtitle
    \/ InpRemainSubtitle
    \/ InpFinish
    \/ RunAgain

SpecReorg == InitReorg /\ [][NextReorg]_vars


\* ====================================================== claims: reorganizer
AllFiles ==
    { video_files[i] : i \in 1..Len(video_files) }
      \cup { subtitle_files[i] : i \in 1..Len(subtitle_files) }

\* the ledger of the run: every discovered file succeeded and none failed
LedgerComplete ==
    /\ Len(moved_files) = Cardinality(AllFiles)
    /\ failed_moves = 0

\* C1 (as amended): at the end of an output-mode run the original directory
\* is deleted if and only if the number of moved/copied files equals the
\* number of discovered files, the failure count is 0 and the rmtree call
\* itself did not raise; rmtree is called exactly when the two counts allow
\* it, and until the end of the run the directory exists.
C1_DeletedIffLedgerCompleteAndRmtreeOk ==
    IsOutputMode =>
        /\ pc # "done" => show_exists /\ rmtree_result = "none"
        /\ pc = "done" =>
              /\ ~show_exists <=> (LedgerComplete /\ rmtree_result = "ok")
              /\ LedgerComplete <=> rmtree_result # "none"

\* C1 witness: a run of two files or more that ended with the directory deleted
C1_Witness ==
    IsOutputMode /\ pc = "done" /\ ~show_exists /\ Len(moved_files) >= 2

\* C1 as stated: deleted if and only if the counts are complete
C1_Original ==
    (IsOutputMode /\ pc = "done") => (~show_exists <=> LedgerComplete)

\* C2 as stated: in an output-mode run the content of every discovered file is
\* on disk at its original path or below the output directory, and no two
\* discovered files are written to the same destination path.
C2_NoDataLost ==
    IsOutputMode =>
        /\ \A f \in discovered :
              \E x \in disk : x.c = f /\ (x.p = f \/ x.p.root = "media")
        /\ \A w1, w2 \in written : w1.dst = w2.dst => w1.src = w2.src

\* a name none of whose tokens names an episode of the episode list
EpisodeKeys == { KeyOf(episodes_data[i]) : i \in 1..Len(episodes_data) }
NamesNoEpisode(name) ==
    \A i \in 1..Len(name) :
        \/ name[i].k = "W"
        \/ name[i].k \in {"SE", "X"} /\ Key(name[i].s, name[i].e) \notin EpisodeKeys
UnmatchedVideos ==
    { f \in { video_files[i] : i \in 1..Len(video_files) } : NamesNoEpisode(f.name) }

C5_SecondRunMovesNothing ==
    (mode = "inplace" /\ run >= 2 /\ clean) => moves = 0


\* ====================================================== the catalog resolver
\* the reorganizer at rest, for the runs that are about the resolver
ReorgIdle ==
    /\ mode = "idle"
    /\ disk = {}
    /\ show_exists = TRUE
    /\ show_title = <<>>
    /\ episodes_data = <<>>
    /\ translated_episodes = <<>>
    /\ video_files = <<>>
    /\ subtitle_files = <<>>
    /\ pc = "idle"
    /\ vi = 1
    /\ sj = 1
    /\ moved_files = <<>>
    /\ failed_moves = 0
    /\ renamed_count = 0
    /\ skipped_count = 0
    /\ run = 1
    /\ discovered = {}
    /\ moves = 0
    /\ io_failures = 0
    /\ visited = {}
    /\ written = {}
    /\ clean = TRUE
    /\ rmtree_result = "none"

\* the inputs of a run; media_type "" is an input without that key, tmdb_id 0
\* and omdb_id "" are the identifiers that were not given
Inputs ==
    [ query : {"", "q"}, tmdb_id : 0..MaxId, omdb_id : {"", "tt1"},
      media_type : {"", "tv", "movie"}, media_type_forced : BOOLEAN,
      aid_search : BOOLEAN ]

\* input_data.get("media_type", default)
MediaType(default) == IF input.media_type = "" THEN default ELSE input.media_type

\* one entry of a search response; the search endpoints give no media_type
Result(id) == [id |-> id, media_type |-> ""]
ResultLists ==
    UNION { [1..n -> { Result(i) : i \in 1..MaxId }] : n \in 0..MaxResults }

\* what TMDBAdapter.search_tv / search_movie give: a response, or (ok FALSE)
\* the RequestException _make_request raises when its attempts are used up
Responses ==
    { [ok |-> TRUE, results |-> r] : r \in ResultLists }
      \cup { [ok |-> FALSE, results |-> <<>>] }

\* what find_by_imdb_id gives
FindResponses ==
    { [ok |-> TRUE, movie_results |-> m, tv_results |-> t] :
          m \in ResultLists, t \in ResultLists }
      \cup { [ok |-> FALSE, movie_results |-> <<>>, tv_results |-> <<>>] }

Call(name, resp) == [name |-> name, ok |-> resp.ok, n |-> Len(resp.results)]

\* if not query and (tmdb_id or omdb_id)
SkipSearchOmdbOnly == input.query = "" /\ input.omdb_id # ""
SkipSearch == input.query = "" /\ (input.tmdb_id # 0 \/ input.omdb_id # "")

\* the else branch of `if tv_results and tv_results.get("results")`
AlwaysMovieFallback(tv) == TRUE
NeedsMovieFallback(tv) == tv.results = <<>>

\* a forced branch that searches TV whatever type was asked for
ForcedTypeAlwaysTv == "tv"
\* the forced branch: `if media_type == "movie"`, else TV
ForcedType == IF MediaType("tv") = "movie" THEN "movie" ELSE "tv"

InitResolve ==
    /\ ReorgIdle
    /\ ExtIdle
    /\ input \in Inputs
    /\ rpc = "search"
    /\ search = NoSearch
    /\ selected = NoCandidate
    /\ error = ""
    /\ calls = <<>>
    /\ g_use_api = FALSE
    /\ g_attempt = 0
    /\ g_outcome = NoOutcome
    /\ g_result = NoResult

\* the run ends with the exception a collaborator or the stage raised
Raise(what) ==
    /\ rpc' = "error"
    /\ error' = what

search_node ==
    /\ rpc = "search"
    /\ IF SkipSearch
       THEN /\ search' = [results |-> <<>>, performed_search_type |-> "", skip_search |-> TRUE]
            /\ rpc' = "select"
            /\ UNCHANGED << calls, error >>
       ELSE IF ~input.media_type_forced
       THEN \E tv \in Responses :
              IF ~tv.ok
              THEN /\ calls' = Append(calls, Call("search_tv", tv))
                   /\ Raise("RequestException")
                   /\ UNCHANGED search
              ELSE IF ~NeedsMovieFallback(tv)
              THEN /\ calls' = Append(calls, Call("search_tv", tv))
                   /\ search' = [results |-> tv.results, performed_search_type |-> "tv",
                                 skip_search |-> FALSE]
                   /\ rpc' = "select"
                   /\ UNCHANGED error
              ELSE \E movie \in Responses :
                     /\ calls' = calls \o << Call("search_tv", tv), Call("search_movie", movie) >>
                     /\ IF ~movie.ok
                        THEN Raise("RequestException") /\ UNCHANGED search
                        ELSE /\ search' =
                                  [results |-> movie.results,
                                   performed_search_type |->
                                       IF movie.results # <<>> THEN "movie" ELSE "",
                                   skip_search |-> FALSE]
                             /\ rpc' = "select"
                             /\ UNCHANGED error
       ELSE \E results \in Responses :
              LET type == ForcedType
              IN  /\ calls' = Append(calls, Call("search_" \o type, results))
                  /\ IF ~results.ok
                     THEN Raise("RequestException") /\ UNCHANGED search
                     ELSE /\ search' = [results |-> results.results,
                                        performed_search_type |-> type, skip_search |-> FALSE]
                          /\ rpc' = "select"
                          /\ UNCHANGED error
    /\ UNCHANGED << reorgVars, extVars, input, selected, g_use_api, g_attempt, g_outcome, g_result >>


\* ------------------------------------------------------ web-search adapter
\* a catalog URL https://www.themoviedb.org/<type>/<id>
Url(type, id) == [type |-> type, id |-> id]
Urls == { Url(t, i) : t \in {"movie", "tv"}, i \in 1..MaxId }
\* the catalog URLs of a result page (HTML) or of the items of an API answer
Pages == UNION { [1..n -> Urls] : n \in 0..MaxUrls }

\* the id of the first URL of the page that is of type t, 0 when there is none
FirstIdOfType(page, t) ==
    IF \E i \in 1..Len(page) : page[i].type = t
    THEN page[CHOOSE i \in 1..Len(page) :
                 /\ page[i].type = t
                 /\ \A j \in 1..(i - 1) : page[j].type # t].id
    ELSE 0

\* the first URL of the requested type; failing that the first movie URL,
\* then the first tv URL (broader_patterns); 0 is None
_extract_tmdb_id_from_html(html, media_type) ==
    IF FirstIdOfType(html, media_type) # 0 THEN FirstIdOfType(html, media_type)
    ELSE IF FirstIdOfType(html, "movie") # 0 THEN FirstIdOfType(html, "movie")
    ELSE FirstIdOfType(html, "tv")

\* what the two paths meet: an exception, the noscript page, or a page
RequestExceptions == {"ConnectionError", "HTTPError"}
ApiExceptions == {"ImportError", "HttpError"}
Outcome(kind, page) == [kind |-> kind, page |-> page]
CrawlerOutcomes ==
    { Outcome(k, <<>>) : k \in RequestExceptions \cup {"noscript"} }
      \cup { Outcome("page", pg) : pg \in Pages }
ApiOutcomes ==
    { Outcome(k, <<>>) : k \in ApiExceptions } \cup { Outcome("page", pg) : pg \in Pages }

\* _search_with_api with an except clause that re-raises
SearchWithApiRaising(outcome, media_type) ==
    IF outcome.kind = "ImportError" THEN NoResult
    ELSE IF outcome.kind # "page" THEN [raised |-> outcome.kind, id |-> 0]
    ELSE [raised |-> "", id |-> FirstIdOfType(outcome.page, media_type)]

\* ImportError and every Exception of the request give None; else the id of
\* the first item link of the requested type
_search_with_api(outcome, media_type) ==
    IF outcome.kind = "ImportError" THEN NoResult
    ELSE IF outcome.kind # "page" THEN NoResult
    ELSE [raised |-> "", id |-> FirstIdOfType(outcome.page, media_type)]

\* range(2)
CrawlerAttempts == 2

\* one pass of the loop of _search_with_crawler: done with a result, or go on
\* to the next attempt; after the last attempt the function returns None
CrawlerAttempt(outcome, attempt, media_type) ==
    LET id == _extract_tmdb_id_from_html(outcome.page, media_type)
        goOn == [done |-> attempt + 1 >= CrawlerAttempts, result |-> NoResult]
    IN  IF outcome.kind \in RequestExceptions THEN goOn
        ELSE IF outcome.kind = "noscript" THEN [done |-> TRUE, result |-> NoResult]
        ELSE IF id # 0 THEN [done |-> TRUE, result |-> [raised |-> "", id |-> id]]
        ELSE goOn

\* if not candidate and query and input_data.get("aid_search", False)
WantsFallbackWithoutOptIn(candidate) ==
    candidate = NoCandidate /\ input.query # ""
WantsFallback(candidate) ==
    candidate = NoCandidate /\ input.query # "" /\ input.aid_search

\* the candidate taken from the search results: the one with the given id,
\* or the first
FromResults ==
    LET rs == search.results
    IN  IF input.tmdb_id # 0
        THEN IF \E i \in 1..Len(rs) : rs[i].id = input.tmdb_id
             THEN rs[CHOOSE i \in 1..Len(rs) :
                        /\ rs[i].id = input.tmdb_id
                        /\ \A j \in 1..(i - 1) : rs[j].id # input.tmdb_id]
             ELSE NoCandidate
        ELSE IF rs # <<>> THEN rs[1] ELSE NoCandidate

\* the end of select_candidate_node on the search path
Conclude(candidate) ==
    IF candidate = NoCandidate
    THEN /\ Raise("No suitable candidate found")
         /\ UNCHANGED selected
    ELSE /\ selected' = IF candidate.media_type = ""
                        THEN [candidate EXCEPT !.media_type = MediaType("movie")]
                        ELSE candidate
         /\ rpc' = "fetch"
         /\ UNCHANGED error

\* select_candidate_node with the other type's result taken when the requested
\* type has none
FromEitherType(found) ==
    IF MediaType("tv") = "movie" /\ found.movie_results # <<>>
    THEN [found.movie_results[1] EXCEPT !.media_type = "movie"]
    ELSE IF found.tv_results # <<>>
    THEN [found.tv_results[1] EXCEPT !.media_type = "tv"]
    ELSE IF found.movie_results # <<>>
    THEN [found.movie_results[1] EXCEPT !.media_type = "movie"]
    ELSE NoCandidate

\* select_candidate_node, the candidate taken from the answer of
\* find_by_imdb_id: NoCandidate stands for the branch that raises
FromCrossReference(found) ==
    IF MediaType("tv") = "movie" /\ found.movie_results # <<>>
    THEN [found.movie_results[1] EXCEPT !.media_type = "movie"]
    ELSE IF MediaType("tv") = "tv" /\ found.tv_results # <<>>
    THEN [found.tv_results[1] EXCEPT !.media_type = "tv"]
    ELSE NoCandidate

\* select_candidate_node, up to the call of search_tmdb_id when it makes one
select_candidate_node ==
    /\ rpc = "select"
    /\ IF search.skip_search
       THEN /\ UNCHANGED << g_use_api, g_attempt >>
            /\ IF input.tmdb_id # 0
               THEN /\ selected' = [id |-> input.tmdb_id, media_type |-> MediaType("tv")]
                    /\ rpc' = "fetch"
                    /\ UNCHANGED << calls, error, find_result >>
               ELSE IF input.omdb_id # ""
               THEN \E found \in FindResponses :
                      /\ calls' = Append(calls,
                             [name |-> "find_by_imdb_id", ok |-> found.ok,
                              n |-> Len(found.movie_results) + Len(found.tv_results)])
                      /\ find_result' = << found >>
                      /\ IF ~found.ok
                         THEN Raise("RequestException") /\ UNCHANGED selected
                         ELSE IF FromCrossReference(found) # NoCandidate
                         THEN /\ selected' = FromCrossReference(found)
                              /\ rpc' = "fetch"
                              /\ UNCHANGED error
                         ELSE Raise("No TMDB ID found for OMDB ID") /\ UNCHANGED selected
               ELSE /\ Raise("Either TMDB ID or OMDB ID is required")
                    /\ UNCHANGED << calls, selected, find_result >>
       ELSE IF WantsFallback(FromResults)
       THEN /\ \E api \in BOOLEAN : g_use_api' = api
            /\ g_attempt' = 0
            /\ calls' = Append(calls, [name |-> "search_tmdb_id", ok |-> TRUE, n |-> 0])
            /\ rpc' = "google"
            /\ UNCHANGED << selected, error, find_result >>
       ELSE /\ Conclude(FromResults)
            /\ UNCHANGED << calls, g_use_api, g_attempt, find_result >>
    /\ UNCHANGED << reorgVars, batchVars, pipeVars, netVars, tagVars, scanVars, queryVars,
                    trVars, nameVars, input, search, g_outcome, g_result >>

\* search_tmdb_id of an adapter with an API key: _search_with_api
GoogleApi ==
    /\ rpc = "google"
    /\ g_use_api
    /\ \E outcome \in ApiOutcomes :
          /\ g_result' = _search_with_api(outcome, MediaType("movie"))
          /\ g_outcome' = outcome
    /\ rpc' = "google_done"
    /\ UNCHANGED << reorgVars, extVars, input, search, selected, error, calls, g_use_api, g_attempt >>

\* search_tmdb_id of an adapter without one: one attempt of _search_with_crawler
GoogleCrawlerAttempt ==
    /\ rpc = "google"
    /\ ~g_use_api
    /\ \E outcome \in CrawlerOutcomes :
          LET r == CrawlerAttempt(outcome, g_attempt, MediaType("movie"))
          IN  /\ g_outcome' = outcome
              /\ IF r.done
                 THEN g_result' = r.result /\ rpc' = "google_done" /\ UNCHANGED g_attempt
                 ELSE g_attempt' = g_attempt + 1 /\ UNCHANGED << g_result, rpc >>
    /\ UNCHANGED << reorgVars, extVars, input, search, selected, error, calls, g_use_api >>

\* select_candidate_node after search_tmdb_id returned (or raised)
SelectAfterSearchTmdbId ==
    /\ rpc = "google_done"
    /\ IF g_result.raised # ""
       THEN Raise(g_result.raised) /\ UNCHANGED selected
       ELSE Conclude(IF g_result.id # 0
                     THEN [id |-> g_result.id, media_type |-> MediaType("movie")]
                     ELSE NoCandidate)
    /\ UNCHANGED << reorgVars, extVars, input, search, calls, g_use_api, g_attempt, g_outcome, g_result >>

NextResolve ==
    \/ search_node
    \/ select_candidate_node
    \/ GoogleApi
    \/ GoogleCrawlerAttempt
    \/ SelectAfterSearchTmdbId

SpecResolve == InitResolve /\ [][NextResolve]_vars


\* --------------------------------------------------- claims on the resolver
CallsNamed(name) == { i \in 1..Len(calls) : calls[i].name = name }
\* search_node did not take the direct-identifier return
Searched ==
    /\ rpc \notin {"idle", "search"}
    /\ ~(input.query = "" /\ (input.tmdb_id # 0 \/ input.omdb_id # ""))
IdsOf(rs) == { rs[i].id : i \in 1..Len(rs) }
WebSearchCalled == CallsNamed("search_tmdb_id") # {}

\* C6: when the media type is not forced, the first call of the search stage
\* is the TV search; if it returned at least one result there is no movie
\* search; if it returned zero results there is exactly one movie search.
C6_TvFirstThenOneMovieSearch ==
    (Searched /\ ~input.media_type_forced) =>
        /\ calls # <<>>
        /\ calls[1].name = "search_tv"
        /\ Cardinality(CallsNamed("search_tv")) = 1
        /\ (calls[1].ok /\ calls[1].n >= 1) => CallsNamed("search_movie") = {}
        /\ (calls[1].ok /\ calls[1].n = 0) => CallsNamed("search_movie") = {2}

C6_Witness ==
    /\ ~input.media_type_forced
    /\ rpc = "fetch"
    /\ Len(calls) = 2
    /\ calls[1] = [name |-> "search_tv", ok |-> TRUE, n |-> 0]
    /\ calls[2].name = "search_movie"
    /\ calls[2].n >= 1

C25_ForcedTypeSearchedOnce ==
    (Searched /\ input.media_type_forced) =>
        /\ calls # <<>>
        /\ calls[1].name = (IF input.media_type = "movie" THEN "search_movie"
                            ELSE "search_tv")
        /\ Cardinality(CallsNamed("search_tv") \cup CallsNamed("search_movie")) = 1

\* a forced movie search that gave no result, and no TV search after it
C25_Witness ==
    /\ input.media_type_forced
    /\ input.media_type = "movie"
    /\ rpc \in {"fetch", "error"}
    /\ calls # <<>>
    /\ calls[1] = [name |-> "search_movie", ok |-> TRUE, n |-> 0]
    /\ CallsNamed("search_tv") = {}

\* C8: the web search is called only when the caller opted in (aid_search)
\* and the catalog search gave no usable candidate: never when a candidate
\* was taken from the results, never without aid_search, never on the
\* direct-identifier path (no search made).
C8_FallbackOnlyOptedInAndNoCandidate ==
    WebSearchCalled =>
        /\ input.aid_search
        /\ Searched
        /\ ~search.skip_search
        /\ Cardinality(CallsNamed("search_tmdb_id")) = 1
        /\ CallsNamed("find_by_imdb_id") = {}
        /\ IF input.tmdb_id # 0
           THEN input.tmdb_id \notin IdsOf(search.results)
           ELSE search.results = <<>>

C8_Witness ==
    /\ WebSearchCalled
    /\ input.aid_search
    /\ search.results = <<>>
    /\ rpc = "fetch"
    /\ selected.id = g_result.id

\* C9: the web search returns an identifier only when the page it read holds
\* a catalog URL of the requested media type with that identifier.
C9_IdOnlyFromRequestedType ==
    (rpc = "google_done" /\ g_result.id # 0) =>
        \E i \in 1..Len(g_outcome.page) :
            /\ g_outcome.page[i].type = (IF input.media_type = "" THEN "movie"
                                         ELSE input.media_type)
            /\ g_outcome.page[i].id = g_result.id

\* C10: search_tmdb_id never raises; when its last request failed it returns
\* None, and a run that called it can only end with the no-candidate error.
C10_WebSearchNeverRaises ==
    /\ g_result.raised = ""
    /\ (rpc = "google_done" /\ g_outcome.kind # "page") => g_result = NoResult
    /\ (WebSearchCalled /\ rpc = "error") => error = "No suitable candidate found"

C10_Witness ==
    /\ WebSearchCalled
    /\ g_outcome.kind \in {"HttpError", "ConnectionError"}
    /\ g_result = NoResult
    /\ rpc = "error"
    /\ error = "No suitable candidate found"


\* ------------------------------------------------------------ batch driver
\* the members of a finite set of numbers, in increasing order (iterdir and
\* scan order: the order in which the units were found)
SortedSeq(S) ==
    CHOOSE f \in [1..Cardinality(S) -> S] :
        \A i, j \in 1..Cardinality(S) : i < j => f[i] < f[j]
UnitsOfKind(k) == SortedSeq({ u \in DOMAIN unit_kind : unit_kind[u] = k })

\* how self.app.invoke ends: output.status == "completed", a result without
\* that status, or an exception of a stage
PipelineOutcomes == {"completed", "no_status", "exception"}
\* how the reorganization of a completed unit ends
ReorganizeOutcomes == {"ok", "exception"}

\* organized shows and show groups of the scan, or subdirectories and loose
\* video files of the multi-mode scan, in the order the loops visit them
UnitKinds(m) ==
    IF m = "output"
    THEN { k \in UNION { [1..n -> {"organized", "group"}] : n \in 1..MaxUnits } :
             \A i, j \in 1..Len(k) : (i < j /\ k[j] = "organized") => k[i] = "organized" }
    ELSE IF m = "multi"
    THEN { k \in UNION { [1..n -> {"subdir", "loose"}] : n \in 1..MaxUnits } :
             \A i, j \in 1..Len(k) : (i < j /\ k[j] = "subdir") => k[i] = "subdir" }
    ELSE { << "subdir" >> }

InitBatch ==
    /\ ReorgIdle
    /\ ResolveIdle
    /\ PipeIdle
    /\ NetIdle
    /\ LaterIdle
    /\ batch_mode \in {"output", "inplace", "multi"}
    /\ use_local_nfo \in BOOLEAN
    /\ unit_kind \in UnitKinds(batch_mode)
    /\ subdirs = IF batch_mode = "multi" THEN UnitsOfKind("subdir") ELSE << >>
    /\ \E with_id \in SUBSET { u \in DOMAIN unit_kind : unit_kind[u] = "subdir" } :
          nfo_tasks = IF batch_mode = "multi" /\ use_local_nfo
                      THEN SortedSeq(with_id) ELSE << >>
    /\ bpc = IF batch_mode = "output" THEN "organized"
             ELSE IF batch_mode = "multi" THEN "nfo" ELSE "inplace"
    /\ bi = 1
    /\ processed_count = 0
    /\ failed_count = 0
    /\ invocations = [u \in DOMAIN unit_kind |-> 0]
    /\ file_ops = [u \in DOMAIN unit_kind |-> 0]
    /\ status = [u \in DOMAIN unit_kind |-> "none"]

\* _generate_show_metadata, then _organize_show_files or
\* _organize_scattered_files when it returned a result
ProcessForOutput(u, o, r) ==
    /\ invocations' = [invocations EXCEPT ![u] = @ + 1]
    /\ file_ops' = [file_ops EXCEPT ![u] = IF o = "completed" THEN @ + 1 ELSE @]
    /\ status' = [status EXCEPT ![u] = IF o # "completed" THEN o
                                       ELSE IF r = "ok" THEN "completed"
                                       ELSE "reorganize_exception"]

\* one pass of the loop over organized_shows in run
process_organized_show ==
    /\ bpc = "organized"
    /\ bi <= Len(UnitsOfKind("organized"))
    /\ \E o \in PipelineOutcomes, r \in ReorganizeOutcomes :
          ProcessForOutput(UnitsOfKind("organized")[bi], o, r)
    /\ bi' = bi + 1
    /\ UNCHANGED << reorgVars, resolveVars, pipeVars, netVars, laterVars, batch_mode, use_local_nfo, unit_kind, nfo_tasks,
                    subdirs, bpc, processed_count, failed_count >>

\* one pass of the loop over show_groups in process_scattered_episodes
_process_show_group ==
    /\ bpc = "scattered"
    /\ bi <= Len(UnitsOfKind("group"))
    /\ \E o \in PipelineOutcomes, r \in ReorganizeOutcomes :
          ProcessForOutput(UnitsOfKind("group")[bi], o, r)
    /\ bi' = bi + 1
    /\ UNCHANGED << reorgVars, resolveVars, pipeVars, netVars, laterVars, batch_mode, use_local_nfo, unit_kind, nfo_tasks,
                    subdirs, bpc, processed_count, failed_count >>

\* process_organized_show_inplace: the pipeline, then _rename_files_inplace
\* when it completed; every exception is caught and {} returned
InplaceStatus(o, r) ==
    IF o # "completed" THEN o ELSE IF r = "ok" THEN "completed" ELSE "reorganize_exception"
ProcessInplace(u, o, r) ==
    /\ invocations' = [invocations EXCEPT ![u] = @ + 1]
    /\ file_ops' = [file_ops EXCEPT ![u] = IF o = "completed" THEN @ + 1 ELSE @]
    /\ status' = [status EXCEPT ![u] = InplaceStatus(o, r)]

\* the in-place branch of run: the input directory is the one unit
RunInplace ==
    /\ bpc = "inplace"
    /\ bi = 1
    /\ \E o \in PipelineOutcomes, r \in ReorganizeOutcomes : ProcessInplace(1, o, r)
    /\ bi' = 2
    /\ UNCHANGED << reorgVars, resolveVars, pipeVars, netVars, laterVars, batch_mode, use_local_nfo, unit_kind, nfo_tasks,
                    subdirs, bpc, processed_count, failed_count >>

\* a subdirectory is dropped from subdirs only when its NFO task succeeded
KeepsFailedInSubdirs(result_ok) == ~result_ok

\* one pass of the loop over nfo_tasks in _run_multi_mode
RunNfoTask ==
    /\ bpc = "nfo"
    /\ bi <= Len(nfo_tasks)
    /\ \E o \in PipelineOutcomes, r \in ReorganizeOutcomes :
          LET u == nfo_tasks[bi]
              ok == InplaceStatus(o, r) = "completed"
          IN  /\ ProcessInplace(u, o, r)
              /\ subdirs' = IF KeepsFailedInSubdirs(ok) THEN subdirs
                            ELSE SelectSeq(subdirs, LAMBDA x : x # u)
              /\ processed_count' = IF ok THEN processed_count + 1 ELSE processed_count
              /\ failed_count' = IF ok THEN failed_count ELSE failed_count + 1
    /\ bi' = bi + 1
    /\ UNCHANGED << reorgVars, resolveVars, pipeVars, netVars, laterVars, batch_mode, use_local_nfo, unit_kind, nfo_tasks, bpc >>

\* one pass of the loop over the remaining subdirs in _run_multi_mode
RunSubdir ==
    /\ bpc = "subdirs"
    /\ bi <= Len(subdirs)
    /\ \E o \in PipelineOutcomes, r \in ReorganizeOutcomes :
          LET ok == InplaceStatus(o, r) = "completed"
          IN  /\ ProcessInplace(subdirs[bi], o, r)
              /\ processed_count' = IF ok THEN processed_count + 1 ELSE processed_count
              /\ failed_count' = IF ok THEN failed_count ELSE failed_count + 1
    /\ bi' = bi + 1
    /\ UNCHANGED << reorgVars, resolveVars, pipeVars, netVars, laterVars, batch_mode, use_local_nfo, unit_kind, nfo_tasks,
                    subdirs, bpc >>

\* how the moves of _process_loose_video_file into the new show directory
\* end: all done, the move of the video raised, or the move of a subtitle
\* raised after the video was moved
LooseMoveOutcomes == {"ok", "video_exception", "subtitle_exception"}

\* one pass of the loop over loose_video_files: _process_loose_video_file
\* moves the video and its subtitles into "<show> (Unknown Year)" and then
\* runs process_organized_show_inplace on that directory
_process_loose_video_file ==
    /\ bpc = "loose"
    /\ bi <= Len(UnitsOfKind("loose"))
    /\ \E m \in LooseMoveOutcomes, o \in PipelineOutcomes, r \in ReorganizeOutcomes :
          LET u == UnitsOfKind("loose")[bi]
          IN  IF m = "ok"
              THEN /\ invocations' = [invocations EXCEPT ![u] = @ + 1]
                   /\ file_ops' = [file_ops EXCEPT
                                     ![u] = IF o = "completed" THEN @ + 2 ELSE @ + 1]
                   /\ status' = [status EXCEPT ![u] = InplaceStatus(o, r)]
                   /\ processed_count' = processed_count + 1
                   /\ UNCHANGED failed_count
              ELSE /\ file_ops' = [file_ops EXCEPT
                                     ![u] = IF m = "subtitle_exception" THEN @ + 1 ELSE @]
                   /\ status' = [status EXCEPT ![u] = "move_exception"]
                   /\ failed_count' = failed_count + 1
                   /\ UNCHANGED << invocations, processed_count >>
    /\ bi' = bi + 1
    /\ UNCHANGED << reorgVars, resolveVars, pipeVars, netVars, laterVars, batch_mode, use_local_nfo, unit_kind, nfo_tasks,
                    subdirs, bpc >>

\* the loop that is executing has no unit left: run goes on to the next one
LoopLength ==
    IF bpc = "organized" THEN Len(UnitsOfKind("organized"))
    ELSE IF bpc = "scattered" THEN Len(UnitsOfKind("group"))
    ELSE IF bpc = "nfo" THEN Len(nfo_tasks)
    ELSE IF bpc = "subdirs" THEN Len(subdirs)
    ELSE IF bpc = "loose" THEN Len(UnitsOfKind("loose"))
    ELSE 1
NextLoop ==
    /\ bpc \in {"organized", "scattered", "nfo", "subdirs", "loose", "inplace"}
    /\ bi > LoopLength
    /\ bpc' = IF bpc = "organized" THEN "scattered"
              ELSE IF bpc = "nfo" THEN "subdirs"
              ELSE IF bpc = "subdirs" THEN "loose"
              ELSE "done"
    /\ bi' = 1
    /\ UNCHANGED << reorgVars, resolveVars, pipeVars, netVars, laterVars, batch_mode, use_local_nfo, unit_kind, nfo_tasks,
                    subdirs, processed_count, failed_count, invocations, file_ops, status >>

NextBatch ==
    \/ process_organized_show
    \/ _process_show_group
    \/ RunInplace
    \/ RunNfoTask
    \/ RunSubdir
    \/ _process_loose_video_file
    \/ NextLoop

SpecBatch == InitBatch /\ [][NextBatch]_vars

\* ------------------------------------------------ claims on the batch driver
AllUnits == DOMAIN unit_kind
FailedUnits == { u \in AllUnits : status[u] \in {"no_status", "exception"} }

\* C11: for a unit whose pipeline did not reach 'completed' the driver moved,
\* copied or renamed none of its files and invoked the pipeline for it once
\* only, and when the run is over every unit has been processed.
C11_FailedUnitUntouchedNotRetried ==
    /\ \A u \in FailedUnits : file_ops[u] = 0 /\ invocations[u] = 1
    /\ bpc = "done" => \A u \in AllUnits : status[u] # "none"


\* ------------------------------------------------------- JSON values, text
\* A value of a JSON object or of a dict: the key is absent, its value is
\* None, or it is a string.  A string is the sequence of its code points.
Absent == [p |-> "absent", v |-> << >>]
NoneV == [p |-> "none", v |-> << >>]
Str(s) == [p |-> "str", v |-> s]
\* bool(x) of a value that was read with .get
Truthy(x) == x.p = "str" /\ x.v # << >>
\* d.get(key, default)
Get(x, default) == IF x.p = "absent" THEN default ELSE x
\* d.get(key): None when the key is absent
GetNone(x) == Get(x, NoneV)
\* x or y
Or(x, y) == IF Truthy(x) THEN x ELSE y

\* "Show", a CJK title, "2020-01-01", "abcd-01-01", "0000-00-00", "20"
LatinText == << 83, 104, 111, 119 >>
CjkText == << 21095 >>
DateGood == << 50, 48, 50, 48, 45, 48, 49, 45, 48, 49 >>
DateLetters == << 97, 98, 99, 100, 45, 48, 49, 45, 48, 49 >>
DateZero == << 48, 48, 48, 48, 45, 48, 48, 45, 48, 48 >>
DateShort == << 50, 48 >>

\* re.search(r'[\u4e00-\u9fff]', text)
HasCjk(text) == \E i \in 1..Len(text) : text[i] >= 19968 /\ text[i] <= 40959

\* s[:4]
FirstFour(s) == SubSeq(s, 1, IF Len(s) < 4 THEN Len(s) ELSE 4)

\* int(s) of a text of ASCII digits; anything else is a ValueError
IsDigits(s) == s # << >> /\ \A i \in 1..Len(s) : s[i] >= 48 /\ s[i] <= 57
RECURSIVE DigitsValue(_)
DigitsValue(s) ==
    IF s = << >> THEN 0
    ELSE 10 * DigitsValue(SubSeq(s, 1, Len(s) - 1)) + (s[Len(s)] - 48)

\* int(data.get("first_air_date", "0000-00-00")[:4]) if data.get("first_air_date") else 0
YearOf(date) ==
    IF ~Truthy(date) THEN [raised |-> "", year |-> 0]
    ELSE IF IsDigits(FirstFour(date.v))
    THEN [raised |-> "", year |-> DigitsValue(FirstFour(date.v))]
    ELSE [raised |-> "ValueError", year |-> 0]

\* the "zh" entry of data["translations"]["translations"], when there is one
NoTranslation == [present |-> FALSE, name |-> Absent, overview |-> Absent]

\* the canonical record; present is FALSE for the empty dict
NoNormalized ==
    [present |-> FALSE, media_type |-> "", tmdb_id |-> 0, title |-> Absent,
     title_zh |-> Absent, plot |-> Absent, plot_zh |-> Absent, year |-> 0,
     episodes |-> << >>, OMDB_id |-> Absent, genres_zh |-> Absent, keywords |-> FALSE]

\* normalize_tmdb_movie and normalize_tmdb_tv: the fields they have in common
\* (title/name, overview, release_date/first_air_date, translations)
NormalizeBase(data, media_type) ==
    LET title == Get(data.title, Str(<< >>))
        overview == Get(data.overview, Str(<< >>))
        native_title == IF HasCjk(title.v) THEN title ELSE Absent
        native_plot == IF HasCjk(overview.v) THEN overview ELSE Absent
    IN  [ raised |-> YearOf(data.date).raised,
          normalized |->
            [present |-> TRUE,
             media_type |-> media_type,
             tmdb_id |-> data.id,
             title |-> title,
             title_zh |-> IF data.zh.present THEN GetNone(data.zh.name) ELSE native_title,
             plot |-> GetNone(data.overview),
             plot_zh |-> IF data.zh.present THEN GetNone(data.zh.overview) ELSE native_plot,
             year |-> YearOf(data.date).year,
             episodes |-> << >>,
             OMDB_id |-> Absent,
             genres_zh |-> Absent,
             keywords |-> FALSE] ]
normalize_tmdb_movie(data) == NormalizeBase(data, "movie")
normalize_tmdb_tv(data) == NormalizeBase(data, "tv")

\* enrich_with_omdb: imdbID, Plot (only when plot_zh is still missing), Genre
enrich_with_omdb(record, omdb_data) ==
    [record EXCEPT
        !.OMDB_id = omdb_data.imdbID,
        !.plot_zh = IF ~Truthy(record.plot_zh) THEN omdb_data.Plot ELSE @,
        !.genres_zh = omdb_data.Genre]

\* DirectMapper.map_to_movie_nfo / map_to_tvshow_nfo: title, plot, year
NoNfo == [present |-> FALSE, title |-> Absent, plot |-> Absent, year |-> 0,
          genre |-> Absent, validated |-> FALSE, xml |-> FALSE]
map_to_tvshow_nfo(internal_data) ==
    [present |-> TRUE,
     title |-> Or(internal_data.title_zh, Get(internal_data.title, Str(<< >>))),
     plot |-> Or(internal_data.plot_zh, Get(internal_data.plot, Str(<< >>))),
     year |-> internal_data.year,
     genre |-> internal_data.genres_zh,
     validated |-> FALSE,
     xml |-> FALSE]

\* Translator.translate_text: the collaborator's text, or the source text
\* when the call failed or the text is empty
TranslatedText(text) == << 35695 >> \o text
translate_text(x, translator_ok) ==
    IF ~Truthy(x) THEN x
    ELSE IF translator_ok THEN Str(TranslatedText(x.v)) ELSE x
\* a translator that overwrites the variants the record already has
TranslateEveryField(data, translator_ok) ==
    [data EXCEPT
        !.title_zh = IF data.title.p # "absent"
                     THEN translate_text(data.title, translator_ok) ELSE @,
        !.plot_zh = IF data.plot.p # "absent"
                    THEN translate_text(data.plot, translator_ok) ELSE @]
\* Translator.translate_metadata: a copy with title_zh and plot_zh filled in
translate_metadata(data, translator_ok) ==
    [data EXCEPT
        !.title_zh = IF data.title.p # "absent" /\ ~Truthy(data.title_zh)
                     THEN translate_text(data.title, translator_ok) ELSE @,
        !.plot_zh = IF data.plot.p # "absent" /\ ~Truthy(data.plot_zh)
                    THEN translate_text(data.plot, translator_ok) ELSE @]

\* the show title _organize_show_files puts in the file names:
\* normalized.get("title_zh", normalized.get("title", show_path.name))
ShowTitleOf(record, show_name) ==
    Get(record.title_zh, Get(record.title, Str(show_name)))

\* ------------------------------------------------------- metadata pipeline
\* the nodes and edges of create_graph
Nodes ==
    {"parse_input", "search", "select_candidate", "fetch", "normalize", "translate",
     "omdb_enrich", "plan_artwork", "download_images", "map_to_nfo", "validate_nfo",
     "render_xml", "write_output", "report"}
Successors(n) ==
    IF n = "parse_input" THEN {"search"}
    ELSE IF n = "search" THEN {"select_candidate"}
    ELSE IF n = "select_candidate" THEN {"fetch"}
    ELSE IF n = "fetch" THEN {"normalize"}
    ELSE IF n = "normalize"
    THEN {"translate"} \cup (IF skip_images THEN {"map_to_nfo"} ELSE {"plan_artwork"})
    ELSE IF n = "translate" THEN {"omdb_enrich"}
    ELSE IF n = "plan_artwork" THEN {"download_images"}
    ELSE IF n = "download_images" THEN {"map_to_nfo"}
    ELSE IF n = "map_to_nfo" THEN {"validate_nfo"}
    ELSE IF n = "validate_nfo" THEN {"render_xml"}
    ELSE IF n = "render_xml" THEN {"write_output"}
    ELSE IF n = "write_output" THEN {"report"}
    ELSE {}

\* the details of a title as the catalog returns them
MainData(title, overview, date, imdb_id, zh) ==
    [id |-> 1, title |-> title, overview |-> overview, date |-> date,
     imdb_id |-> imdb_id, zh |-> zh]
ZhEntries ==
    { NoTranslation,
      [present |-> TRUE, name |-> Absent, overview |-> Absent],
      [present |-> TRUE, name |-> Str(<< >>), overview |-> Str(<< >>)],
      [present |-> TRUE, name |-> Str(CjkText), overview |-> Str(CjkText)] }
Dates == { Absent, NoneV, Str(<< >>), Str(DateGood), Str(DateLetters), Str(DateZero),
           Str(DateShort) }
MainDatas ==
    { MainData(Str(LatinText), Str(LatinText), d, Absent, NoTranslation) : d \in Dates }
      \cup { MainData(t, o, Str(DateGood), i, z) :
               t \in { Str(<< >>), Str(LatinText), Str(CjkText) },
               o \in { Absent, Str(LatinText) },
               i \in { Absent, Str(<< 116, 116, 49 >>) },
               z \in ZhEntries }

\* a season of main_data["seasons"] with the episodes of its detail, and
\* whether the request for each detail succeeds
Episode_(n, ok) == [episode_number |-> n, ok |-> ok]
Season_(n, ok, episodes) == [season_number |-> n, ok |-> ok, episodes |-> episodes]
EpisodeListsOf ==
    UNION { { [i \in 1..n |-> Episode_(i, f[i])] : f \in [1..n -> BOOLEAN] } :
            n \in 0..MaxEpisodes }
RegularSeasons(n) ==
    { s \in [1..n -> [season_number : 1..n, ok : BOOLEAN, episodes : EpisodeListsOf]] :
        \A i \in 1..n : /\ s[i].season_number = i
                        /\ (~s[i].ok => s[i].episodes = << >>) }
SeasonLists ==
    UNION { RegularSeasons(n) \cup
            { << Season_(0, TRUE, << Episode_(1, TRUE) >>) >> \o s : s \in RegularSeasons(n) } :
            n \in 0..MaxSeasons }
OneSeason == << Season_(1, TRUE, << Episode_(1, TRUE) >>) >>

\* what fails in a run: nothing, or the requests of one collaborator
Failures == {"none", "details", "credits", "keywords", "images", "omdb", "translator"}
World(main, seasons, fails) == [main |-> main, seasons |-> seasons, fails |-> fails]

\* the episodes of a season detail whose own request succeeded
EpisodesUntilFailure(season) ==
    LET eps == season.episodes
        stop == IF \E i \in 1..Len(eps) : ~eps[i].ok
                THEN (CHOOSE i \in 1..Len(eps) :
                         ~eps[i].ok /\ \A j \in 1..(i - 1) : eps[j].ok) - 1
                ELSE Len(eps)
    IN  [i \in 1..stop |->
            [season_number |-> season.season_number,
             episode_number |-> eps[i].episode_number]]
EpisodesFetched(season) ==
    LET good == SelectSeq(season.episodes, LAMBDA ep : ep.ok)
    IN  [i \in 1..Len(good) |->
            [season_number |-> season.season_number,
             episode_number |-> good[i].episode_number]]
EpisodeRequests(season) ==
    [i \in 1..Len(season.episodes) |->
        [kind |-> "episode", season_number |-> season.season_number,
         episode_number |-> season.episodes[i].episode_number]]
SeasonRequest(season) ==
    [kind |-> "season", season_number |-> season.season_number, episode_number |-> 0]

\* the loop without its test of the season number
RECURSIVE FetchEverySeason(_, _)
FetchEverySeason(seasons, i) ==
    IF i > Len(seasons)
    THEN [requests |-> << >>, seasons_data |-> << >>, episodes_data |-> << >>]
    ELSE LET rest == FetchEverySeason(seasons, i + 1)
             season == seasons[i]
         IN  IF ~season.ok
             THEN [rest EXCEPT !.requests = << SeasonRequest(season) >> \o @]
             ELSE [requests |-> << SeasonRequest(season) >> \o EpisodeRequests(season)
                                   \o rest.requests,
                   seasons_data |-> << season.season_number >> \o rest.seasons_data,
                   episodes_data |-> EpisodesFetched(season) \o rest.episodes_data]

\* the loop over main_data["seasons"] of fetch_node, from season i on
RECURSIVE FetchSeasons(_, _)
FetchSeasons(seasons, i) ==
    IF i > Len(seasons)
    THEN [requests |-> << >>, seasons_data |-> << >>, episodes_data |-> << >>]
    ELSE LET rest == FetchSeasons(seasons, i + 1)
             season == seasons[i]
         IN  IF season.season_number <= 0 THEN rest
             ELSE IF ~season.ok
             THEN [rest EXCEPT !.requests = << SeasonRequest(season) >> \o @]
             ELSE [requests |-> << SeasonRequest(season) >> \o EpisodeRequests(season)
                                   \o rest.requests,
                   seasons_data |-> << season.season_number >> \o rest.seasons_data,
                   episodes_data |-> EpisodesFetched(season) \o rest.episodes_data]

\* ---- the channels of GraphState and the answers of the collaborators
NoMain == [MainData(Absent, Absent, Absent, Absent, NoTranslation) EXCEPT !.id = 0]
NoOmdb == [present |-> FALSE, imdbID |-> Absent, Plot |-> Absent, Genre |-> Absent]
OmdbAnswer ==
    [present |-> TRUE, imdbID |-> Str(<< 116, 116, 49 >>), Plot |-> Str(<< 80 >>),
     Genre |-> Str(<< 71 >>)]
NoSourceData ==
    [present |-> FALSE, main |-> NoMain, keywords |-> FALSE, seasons |-> << >>,
     episodes |-> << >>, has_translated |-> FALSE, translated |-> NoNormalized,
     translated_episodes |-> << >>, omdb |-> NoOmdb]
NoArtwork == [planned |-> FALSE, downloaded |-> FALSE]
NoOutput == [status |-> "", report |-> FALSE]

Request(kind) == [kind |-> kind, season_number |-> 0, episode_number |-> 0]

\* fetch_node: input["media_type"], overridden by the selected candidate's
\* unless the type was forced
FetchMediaType ==
    IF input.media_type_forced \/ selected.media_type = ""
    THEN MediaType("tv") ELSE selected.media_type
\* selected.get("media_type", "movie") of the later nodes
SelectedMediaType == IF selected.media_type = "" THEN "movie" ELSE selected.media_type

\* a node of the executing superstep returns its update, or raises
Runnable(n) == n \in active \ finished
NodeReturns(n, writes) ==
    /\ finished' = finished \cup {n}
    /\ pending' = writes @@ pending
    /\ ran' = [ran EXCEPT ![n] = @ + 1]
    /\ perr' = perr
\* a node whose exception is swallowed: the run goes on without an error
NodeSwallows(n, message) ==
    /\ finished' = finished \cup {n}
    /\ pending' = pending
    /\ ran' = [ran EXCEPT ![n] = @ + 1]
    /\ perr' = perr
NodeRaises(n, message) ==
    /\ finished' = finished \cup {n}
    /\ pending' = pending
    /\ ran' = [ran EXCEPT ![n] = @ + 1]
    /\ perr' = IF perr = "" THEN message ELSE perr

PipeFrame ==
    UNCHANGED << reorgVars, resolveVars, batchVars, netVars, laterVars, skip_images, translate_enabled,
                 target_language, world, source_data, normalized, artwork, nfo, output,
                 active >>

fetch_node ==
    /\ Runnable("fetch")
    /\ LET fetched == IF FetchMediaType = "tv" THEN FetchSeasons(world.seasons, 1)
                      ELSE FetchSeasons(<< >>, 1)
       IN  IF selected.id = 0
           THEN NodeRaises("fetch", "No TMDB ID available") /\ requests' = requests
           ELSE IF world.fails = "details"
           THEN NodeRaises("fetch", "Failed to fetch details")
                  /\ requests' = requests \o << Request("details") >>
           ELSE IF world.fails = "credits"
           THEN NodeRaises("fetch", "RequestException")
                  /\ requests' = requests \o << Request("details"), Request("credits") >>
           ELSE /\ requests' = requests \o << Request("details"), Request("credits"),
                                              Request("keywords") >> \o fetched.requests
                /\ NodeReturns("fetch",
                     "source_data" :>
                        [NoSourceData EXCEPT
                            !.present = TRUE,
                            !.main = world.main,
                            !.keywords = world.fails # "keywords",
                            !.seasons = fetched.seasons_data,
                            !.episodes = fetched.episodes_data])
    /\ files_written' = files_written
    /\ PipeFrame

normalize_node ==
    /\ Runnable("normalize")
    /\ LET base == IF SelectedMediaType = "movie"
                   THEN normalize_tmdb_movie(source_data.main)
                   ELSE normalize_tmdb_tv(source_data.main)
           with_episodes ==
               [base.normalized EXCEPT
                   !.episodes = IF SelectedMediaType = "tv" THEN source_data.episodes ELSE @,
                   !.keywords = source_data.keywords]
           with_omdb == IF source_data.omdb.present
                        THEN enrich_with_omdb(with_episodes, source_data.omdb)
                        ELSE with_episodes
       IN  IF base.raised # ""
           THEN NodeRaises("normalize", base.raised)
           ELSE NodeReturns("normalize", "normalized" :> with_omdb)
    /\ UNCHANGED << files_written, requests >>
    /\ PipeFrame

\* translate_node: what it decides about the canonical record
NeedsTranslation(record) ==
    /\ target_language \in {"zh-CN", "zh-TW"}
    /\ (~Truthy(record.title_zh) \/ ~Truthy(record.plot_zh) \/ ~record.keywords)
translate_node ==
    /\ Runnable("translate")
    /\ LET record == IF normalized.present THEN normalized
                     ELSE IF SelectedMediaType = "movie"
                     THEN normalize_tmdb_movie(source_data.main).normalized
                     ELSE normalize_tmdb_tv(source_data.main).normalized
           translated == IF translate_enabled /\ NeedsTranslation(record)
                         THEN translate_metadata(record, world.fails # "translator")
                         ELSE record
       IN  NodeReturns("translate",
              "source_data" :>
                 [source_data EXCEPT
                     !.has_translated = TRUE,
                     !.translated = translated,
                     !.translated_episodes =
                         IF SelectedMediaType = "tv" THEN source_data.episodes ELSE << >>])
    /\ UNCHANGED << files_written, requests >>
    /\ PipeFrame

omdb_enrich_node ==
    /\ Runnable("omdb_enrich")
    /\ IF ~Truthy(source_data.main.imdb_id) \/ world.fails = "omdb"
       THEN NodeReturns("omdb_enrich", "source_data" :> source_data)
       ELSE NodeReturns("omdb_enrich", "source_data" :> [source_data EXCEPT !.omdb = OmdbAnswer])
    /\ UNCHANGED << files_written, requests >>
    /\ PipeFrame

plan_artwork_node ==
    /\ Runnable("plan_artwork")
    /\ IF normalized.media_type = "" \/ normalized.tmdb_id = 0
       THEN NodeRaises("plan_artwork", "Missing media_type or tmdb_id in normalized data")
       ELSE IF world.fails = "images"
       THEN NodeRaises("plan_artwork", "RequestException")
       ELSE NodeReturns("plan_artwork", "artwork" :> [artwork EXCEPT !.planned = TRUE])
    /\ UNCHANGED << files_written, requests >>
    /\ PipeFrame

download_all_images_node ==
    /\ Runnable("download_images")
    /\ files_written' = files_written \cup {"media_dir"}
                          \cup (IF normalized.media_type # "" /\ normalized.tmdb_id # 0
                                THEN {"images"} ELSE {})
    /\ NodeReturns("download_images", "artwork" :> [artwork EXCEPT !.downloaded = TRUE])
    /\ UNCHANGED requests
    /\ PipeFrame

map_to_movie_nfo(internal_data) == map_to_tvshow_nfo(internal_data)
llm_map_to_nfo_node ==
    /\ Runnable("map_to_nfo")
    /\ NodeReturns("map_to_nfo",
          "nfo" :> IF normalized.media_type = "movie" THEN map_to_movie_nfo(normalized)
                   ELSE map_to_tvshow_nfo(normalized))
    /\ UNCHANGED << files_written, requests >>
    /\ PipeFrame

\* a check that looks at the title alone
MissingFieldTitleOnly(nfo_data) ==
    IF ~nfo_data.present \/ ~Truthy(nfo_data.title) THEN "title" ELSE ""
\* validate_nfo_node: the required fields title and year are there and truthy
MissingField(nfo_data) ==
    IF ~nfo_data.present \/ ~Truthy(nfo_data.title) THEN "title"
    ELSE IF nfo_data.year = 0 THEN "year"
    ELSE ""
validate_nfo_node ==
    /\ Runnable("validate_nfo")
    /\ IF MissingField(nfo) # ""
       THEN NodeRaises("validate_nfo", "Missing required field")
       ELSE NodeReturns("validate_nfo", "nfo" :> [nfo EXCEPT !.validated = TRUE])
    /\ UNCHANGED << files_written, requests >>
    /\ PipeFrame

render_xml_node ==
    /\ Runnable("render_xml")
    /\ NodeReturns("render_xml", "nfo" :> [nfo EXCEPT !.xml = TRUE])
    /\ UNCHANGED << files_written, requests >>
    /\ PipeFrame

write_output_node ==
    /\ Runnable("write_output")
    /\ files_written' = files_written \cup {"media_dir", "nfo"}
          \cup (IF normalized.media_type = "tv" /\ source_data.seasons # << >>
                   /\ (IF source_data.has_translated THEN source_data.translated_episodes
                       ELSE source_data.episodes) # << >>
                THEN {"episode_nfo"} ELSE {})
    /\ NodeReturns("write_output", "output" :> [output EXCEPT !.status = "completed"])
    /\ UNCHANGED requests
    /\ PipeFrame

report_node ==
    /\ Runnable("report")
    /\ NodeReturns("report", "output" :> [output EXCEPT !.report = TRUE])
    /\ UNCHANGED << files_written, requests >>
    /\ PipeFrame

\* the barrier between supersteps: the updates of the nodes that ran are
\* merged into the state and the nodes after them are scheduled
Channel(name, old) == IF name \in DOMAIN pending THEN pending[name] ELSE old
EndSuperstep ==
    /\ active # {}
    /\ finished = active
    /\ perr = ""
    /\ source_data' = Channel("source_data", source_data)
    /\ normalized' = Channel("normalized", normalized)
    /\ artwork' = Channel("artwork", artwork)
    /\ nfo' = Channel("nfo", nfo)
    /\ output' = Channel("output", output)
    /\ active' = UNION { Successors(n) : n \in active }
    /\ finished' = {}
    /\ pending' = << >>
    /\ UNCHANGED << reorgVars, resolveVars, batchVars, netVars, laterVars, skip_images, translate_enabled,
                    target_language, world, ran, perr, files_written, requests >>

NextPipeline ==
    \/ fetch_node
    \/ normalize_node
    \/ translate_node
    \/ omdb_enrich_node
    \/ plan_artwork_node
    \/ download_all_images_node
    \/ llm_map_to_nfo_node
    \/ validate_nfo_node
    \/ render_xml_node
    \/ write_output_node
    \/ report_node
    \/ EndSuperstep

\* the state when select_candidate has returned a candidate
InitRun ==
    /\ ReorgIdle
    /\ BatchIdle
    /\ NetIdle
    /\ LaterIdle
    /\ input = [query |-> "q", tmdb_id |-> 0, omdb_id |-> "", media_type |-> "",
                media_type_forced |-> FALSE, aid_search |-> FALSE]
    /\ rpc = "fetch"
    /\ search = NoSearch
    /\ selected \in { [id |-> 1, media_type |-> "tv"], [id |-> 1, media_type |-> "movie"] }
    /\ error = ""
    /\ calls = << >>
    /\ g_use_api = FALSE
    /\ g_attempt = 0
    /\ g_outcome = NoOutcome
    /\ g_result = NoResult
    /\ skip_images \in BOOLEAN
    /\ translate_enabled \in BOOLEAN
    /\ target_language \in {"zh-CN", "en-US"}
    /\ source_data = NoSourceData
    /\ normalized = NoNormalized
    /\ artwork = NoArtwork
    /\ nfo = NoNfo
    /\ output = NoOutput
    /\ active = {"fetch"}
    /\ finished = {}
    /\ pending = << >>
    /\ ran = [n \in Nodes |->
                 IF n \in {"parse_input", "search", "select_candidate"} THEN 1 ELSE 0]
    /\ perr = ""
    /\ files_written = {}
    /\ requests = << >>

InitPipeline ==
    /\ InitRun
    /\ world \in { World(m, OneSeason, f) : m \in MainDatas, f \in Failures }
SpecPipeline == InitPipeline /\ [][NextPipeline]_vars

InitFetch ==
    /\ InitRun
    /\ selected.media_type = "tv"
    /\ ~translate_enabled
    /\ target_language = "en-US"
    /\ world \in { World(MainData(Str(LatinText), Str(LatinText), Str(DateGood), Absent,
                                  NoTranslation), s, f) :
                     s \in SeasonLists, f \in {"none", "details", "credits"} }
SpecFetch == InitFetch /\ [][NextPipeline]_vars

\* ------------------------------------------------------- provider adapters
\* range(3) of _make_request
MaxAttempts == 3
\* TMDBAdapter.__init__: the locales get_*_details tries, in order
language_priority ==
    IF preferred_language = "zh-CN" THEN << "zh-CN", "zh-TW", "en-US" >>
    ELSE IF preferred_language = "zh-TW" THEN << "zh-TW", "zh-CN", "en-US" >>
    ELSE << "en-US", "zh-CN", "zh-TW" >>

\* what one request can end in: a response, a network or HTTP error
\* (session.get or raise_for_status raising a RequestException), and for OMDB
\* a response whose 'Response' field is 'False'
RequestOutcomes(provider) ==
    IF provider = "omdb" THEN {"ok", "RequestException", "ResponseFalse"}
    ELSE {"ok", "RequestException"}
Sent(lang, outcome) == [lang |-> lang, outcome |-> outcome]

\* if attempt == 2: raise e
RetryOnlyOnce(a) == a = 0
LastAttempt(a) == a = MaxAttempts - 1
\* the loop over language_priority goes on to the next locale
GivesUpAtOnce(i) == FALSE
HasNextLocale(i) == i < Len(language_priority)

NetFrame ==
    UNCHANGED << reorgVars, resolveVars, batchVars, pipeVars, laterVars, net_provider, net_call,
                 preferred_language >>

\* one pass of the loop of _make_request in a call without locales
\* (search, credits, keywords, images; OMDB's lookups)
PlainAttempt(provider) ==
    /\ net_provider = provider
    /\ net_call = "plain"
    /\ net_result = ""
    /\ \E outcome \in RequestOutcomes(provider) :
          /\ net_log' = Append(net_log, Sent("", outcome))
          /\ IF outcome = "ok"
             THEN net_result' = "ok" /\ net_attempt' = net_attempt
             ELSE IF outcome = "ResponseFalse"
             THEN net_result' = "Exception" /\ net_attempt' = net_attempt
             ELSE IF LastAttempt(net_attempt)
             THEN net_result' = "RequestException" /\ net_attempt' = net_attempt
             ELSE net_result' = "" /\ net_attempt' = net_attempt + 1
    /\ net_lang' = net_lang
    /\ NetFrame
_make_request == PlainAttempt("tmdb")
OMDB_make_request == PlainAttempt("omdb")

\* get_movie_details, get_tv_details, get_tv_season_details and
\* get_tv_episode_details: one pass of the loop of _make_request for the
\* locale being tried; a RequestException out of it moves on to the next
\* locale, and after the last one the method raises Exception
get_movie_details ==
    /\ net_provider = "tmdb"
    /\ net_call = "details"
    /\ net_result = ""
    /\ \E outcome \in RequestOutcomes("tmdb") :
          /\ net_log' = Append(net_log, Sent(language_priority[net_lang], outcome))
          /\ IF outcome = "ok"
             THEN net_result' = "ok" /\ UNCHANGED << net_attempt, net_lang >>
             ELSE IF ~LastAttempt(net_attempt)
             THEN /\ net_result' = ""
                  /\ net_attempt' = net_attempt + 1
                  /\ net_lang' = net_lang
             ELSE IF HasNextLocale(net_lang)
             THEN /\ net_result' = ""
                  /\ net_attempt' = 0
                  /\ net_lang' = net_lang + 1
             ELSE net_result' = "Exception" /\ UNCHANGED << net_attempt, net_lang >>
    /\ NetFrame

InitNet ==
    /\ ReorgIdle
    /\ ResolveIdle
    /\ BatchIdle
    /\ PipeIdle
    /\ LaterIdle
    /\ \/ net_provider = "tmdb" /\ net_call = "details" /\ net_lang = 1
       \/ net_provider \in {"tmdb", "omdb"} /\ net_call = "plain" /\ net_lang = 0
    /\ preferred_language \in {"zh-CN", "zh-TW", "en-US", "ja-JP"}
    /\ net_attempt = 0
    /\ net_log = << >>
    /\ net_result = ""
NextNet ==
    \/ _make_request
    \/ OMDB_make_request
    \/ get_movie_details
SpecNet == InitNet /\ [][NextNet]_vars

\* ------------------------------------------------ claims about the pipeline
Started(n) == ran[n] > 0
TranslationRequested == translate_enabled /\ target_language \in {"zh-CN", "zh-TW"}
TranslatorWorks == world.fails # "translator"

\* C12: the stages form a strict linear sequence: no two stages are enabled
\* at the same time, each stage runs at most once, and translate and
\* omdb_enrich have both run before map_to_nfo starts.
C12_StrictLinearSequence ==
    /\ Cardinality(active \ finished) <= 1
    /\ \A n \in Nodes : ran[n] <= 1
    /\ Started("map_to_nfo") => Started("translate") /\ Started("omdb_enrich")

\* C13: when the primary record carries an IMDB ID and the request to the
\* secondary catalog succeeds, the canonical record that map_to_nfo reads
\* holds the secondary catalog's overlay.
C13_DescriptorRecordHasOverlay ==
    (Started("map_to_nfo") /\ Truthy(world.main.imdb_id) /\ world.fails # "omdb")
        => normalized.OMDB_id = OmdbAnswer.imdbID

\* C14: when translation is requested and the catalog gave no title and no
\* plot in the target language, the descriptor's title and plot are the
\* translator's outputs, or the source texts when the translator failed.
C14_DescriptorCarriesTranslation ==
    (nfo.present /\ TranslationRequested /\ Truthy(normalized.title)
       /\ Truthy(normalized.plot) /\ ~Truthy(normalized.title_zh)
       /\ ~Truthy(normalized.plot_zh))
        => /\ nfo.title = translate_text(normalized.title, TranslatorWorks)
           /\ nfo.plot = translate_text(normalized.plot, TranslatorWorks)

\* show_path.name of the show the reorganizer is naming files for: "D"
ShowDirName == << 68 >>
OnlySourceTexts(record) ==
    /\ record.present
    /\ Truthy(record.title)
    /\ ~Truthy(record.title_zh)
    /\ ~Truthy(record.plot_zh)

\* C15: with translation disabled and a canonical record that has only the
\* source title and plot (the target-language keys absent, None or empty),
\* the descriptor's title and plot are the source title and plot and the
\* show title the reorganizer names files with is the source title.
C15_SourceTextsUsedVerbatim ==
    (output.status = "completed" /\ ~translate_enabled /\ OnlySourceTexts(normalized))
        => /\ nfo.title = normalized.title
           /\ nfo.plot = normalized.plot
           /\ ShowTitleOf(normalized, ShowDirName) = normalized.title

\* the descriptor has been rendered or written
DescriptorOut == nfo.xml \/ "nfo" \in files_written \/ "episode_nfo" \in files_written
DescriptorFails == nfo.present /\ (~Truthy(nfo.title) \/ nfo.year = 0)

\* C16: the run reaches "completed" only with a descriptor whose title is
\* non-empty and whose year is not 0; a descriptor failing either check ends
\* the run before the descriptor is rendered or written, and a title without
\* a release date (year 0) never completes.
C16_CompletedOnlyWithTitleAndYear ==
    /\ output.status = "completed" => Truthy(nfo.title) /\ nfo.year # 0
    /\ DescriptorFails => ~DescriptorOut /\ output.status = ""
    /\ ~Truthy(world.main.date) => output.status # "completed"
C16_Witness ==
    /\ perr = "Missing required field"
    /\ Truthy(nfo.title)
    /\ nfo.year = 0
    /\ ~Truthy(world.main.date)
    /\ "images" \in files_written
\* C16 as stated: nothing at all has been written when the descriptor fails
C16_Original ==
    /\ output.status = "completed" => Truthy(nfo.title) /\ nfo.year # 0
    /\ DescriptorFails => ~DescriptorOut /\ files_written = {} /\ output.status = ""
    /\ ~Truthy(world.main.date) => output.status # "completed"

DateUnusable ==
    \/ ~Truthy(world.main.date)
    \/ ~IsDigits(FirstFour(world.main.date.v))
\* C17: normalization never raises on the release date: with an absent,
\* empty or malformed date it returns a record whose year is 0.
C17_NormalizeNeverRaisesOnDate ==
    (Started("normalize") /\ DateUnusable)
        => /\ perr # "ValueError"
           /\ Started("translate") => normalized.present /\ normalized.year = 0
\* the part of it that holds: an absent, None or empty date gives year 0
AbsentOrEmptyDateGivesZero ==
    (Started("normalize") /\ ~Truthy(world.main.date))
        => /\ perr # "ValueError"
           /\ Started("translate") => normalized.present /\ normalized.year = 0

\* ------------------------------------------------ claims about the fetch stage
FetchRan == ran["fetch"] = 1
RegularSeasonsOf == { i \in 1..Len(world.seasons) : world.seasons[i].season_number > 0 }
Requested(kind, season_number, episode_number) ==
    \E k \in 1..Len(requests) :
        requests[k] = [kind |-> kind, season_number |-> season_number,
                       episode_number |-> episode_number]
\* the request answered with a detail, by what the catalog does in this run
Succeeded(r) ==
    \E i \in RegularSeasonsOf :
        /\ world.seasons[i].season_number = r.season_number
        /\ world.seasons[i].ok
        /\ \E j \in 1..Len(world.seasons[i].episodes) :
              /\ world.seasons[i].episodes[j].episode_number = r.episode_number
              /\ world.seasons[i].episodes[j].ok
SucceededEpisodeRequests ==
    SelectSeq(requests, LAMBDA r : r.kind = "episode" /\ Succeeded(r))

\* C18: a failing season-detail or episode-detail request neither aborts
\* fetch nor stops the other requests: every regular season is requested,
\* every episode of a season whose request succeeded is requested, and the
\* episode list is the episodes whose own and whose season's request
\* succeeded, in request order. fetch aborts exactly when the top-level
\* details or the credits request fails.
C18_PartialFetchAccepted ==
    FetchRan =>
        /\ (perr # "") <=> (world.fails \in {"details", "credits"})
        /\ perr = "" =>
            /\ \A i \in RegularSeasonsOf :
                  /\ Requested("season", world.seasons[i].season_number, 0)
                  /\ world.seasons[i].ok =>
                        \A j \in 1..Len(world.seasons[i].episodes) :
                            Requested("episode", world.seasons[i].season_number,
                                      world.seasons[i].episodes[j].episode_number)
            /\ source_data.present =>
                  /\ Len(source_data.episodes) = Len(SucceededEpisodeRequests)
                  /\ \A k \in 1..Len(source_data.episodes) :
                        /\ source_data.episodes[k].season_number
                              = SucceededEpisodeRequests[k].season_number
                        /\ source_data.episodes[k].episode_number
                              = SucceededEpisodeRequests[k].episode_number
C18_Witness ==
    /\ source_data.present
    /\ \E i \in RegularSeasonsOf : ~world.seasons[i].ok
    /\ \E i \in RegularSeasonsOf :
          /\ Len(world.seasons[i].episodes) = 2
          /\ ~world.seasons[i].episodes[1].ok
          /\ world.seasons[i].episodes[2].ok
    /\ Len(source_data.episodes) = 1

\* ------------------------------------------------ claims about the adapters
\* the requests of the call that went to one locale ("" in a plain call)
RequestsFor(l) == SelectSeq(net_log, LAMBDA r : r.lang = l)
LocalesInLog == { net_log[k].lang : k \in 1..Len(net_log) }
AllButLastFailed(log) ==
    \A k \in 1..(Len(log) - 1) : log[k].outcome = "RequestException"

\* C19: a provider call whose requests keep failing with a network or HTTP
\* error is retried until 3 requests have been sent and only then fails; a
\* call that succeeds on its k-th attempt has sent exactly k requests; once
\* the call has failed nothing is sent again.
C19_ThreeAttemptsPerCall ==
    /\ \A l \in LocalesInLog :
          /\ Len(RequestsFor(l)) <= 3
          /\ AllButLastFailed(RequestsFor(l))
    /\ (net_call = "plain" /\ net_result = "ok") =>
          net_log[Len(net_log)].outcome = "ok"
    /\ (net_call = "plain" /\ net_result = "RequestException") =>
          /\ Len(net_log) = 3
          /\ net_log[3].outcome = "RequestException"
    /\ (net_call = "plain" /\ net_result = ""
          /\ net_log # << >>) =>
          /\ Len(net_log) < 3
          /\ net_log[Len(net_log)].outcome = "RequestException"
C19_Witness ==
    /\ net_call = "plain"
    /\ net_result = "ok"
    /\ Len(net_log) = 3
C19_WitnessFailed ==
    /\ net_provider = "omdb"
    /\ net_result = "RequestException"

\* C20: get_*_details sends its requests to the locales in the order of
\* language_priority, returns at the first request that succeeds without
\* contacting a later locale (one request when the first one succeeds), and
\* raises only when the requests to every locale have failed.
C20_FirstLocaleThatAnswers ==
    net_call = "details" =>
        /\ \A k \in 1..Len(net_log) :
              \E i \in 1..3 :
                  /\ net_log[k].lang = language_priority[i]
                  /\ \A j \in 1..(i - 1) :
                        \E h \in 1..(k - 1) : net_log[h].lang = language_priority[j]
                  /\ \A h \in 1..(k - 1) :
                        \E j \in 1..i : net_log[h].lang = language_priority[j]
        /\ AllButLastFailed(net_log)
        /\ net_result = "ok" <=>
              (net_log # << >> /\ net_log[Len(net_log)].outcome = "ok")
        /\ net_result \in {"", "ok", "Exception"}
        /\ net_result = "Exception" =>
              /\ \A i \in 1..3 : RequestsFor(language_priority[i]) # << >>
              /\ \A k \in 1..Len(net_log) : net_log[k].outcome = "RequestException"
C20_Witness ==
    /\ net_call = "details"
    /\ net_result = "ok"
    /\ Len(net_log) > 3
    /\ net_log[Len(net_log)].lang = language_priority[2]
C20_WitnessFirst ==
    /\ net_call = "details"
    /\ net_result = "ok"
    /\ Len(net_log) = 1

\* ---------------------------------------------------------------------------
\* The tag translator (src/src/core/translator.py, TagTranslator) and its
\* cache (src/src/core/tag_cache.py).
\* ---------------------------------------------------------------------------

\* the longest tag list of a call, and the number of calls of a run
MaxTags == 2
MaxTagCalls == 2

\* the tags of the model: an empty one, one in two spellings, and another
Tags == {"", "war", "War", "spy"}

TagLists == UNION {[1..n -> Tags] : n \in 0..MaxTags}

\* str.lower() on the tags of the model
TagLower(t) == IF t = "War" THEN "war" ELSE t

\* cache_key of get_translations and set_translations: the digest of the lower-cased tag (the digest is
\* one-to-one on the tags of the model, so the lower-cased tag stands for it)
cache_key(t) == TagLower(t)

\* what the model answers for a tag when the request works
ZhOf(t) ==
    CASE TagLower(t) = "war" -> "zhanzheng"
      [] t = "spy" -> "jiandie"
      [] OTHER -> t

\* how a request to the model can end: the right number of lines, another
\* number of lines, or an exception
TagOutcomes == {"ok", "wrong_count", "exception"}

\* unique_tags of translate_tags: empty tags and repeated tags are left
\* out, the order of first appearance is kept
RECURSIVE UniqueTags(_, _)
UniqueTags(ts, seen) ==
    IF ts = << >> THEN << >>
    ELSE IF Head(ts) = "" \/ Head(ts) \in seen
         THEN UniqueTags(Tail(ts), seen)
         ELSE << Head(ts) >> \o UniqueTags(Tail(ts), seen \cup {Head(ts)})

\* the recent entries of a tag's key (TagCacheManager._is_recent)
RecentEntries(t) == {c \in tag_cache : c.key = cache_key(t) /\ c.recent}

\* TagCacheManager.get_translation gives a translation and not None
IsCached(t) == RecentEntries(t) # {}

\* TagCacheManager.get_translation of a tag that is cached
get_translation(t) == (CHOOSE c \in RecentEntries(t) : TRUE).translation

\* uncached_tags: the tags of a list the cache does not answer, in order
RECURSIVE UncachedTags(_)
UncachedTags(ts) ==
    IF ts = << >> THEN << >>
    ELSE (IF IsCached(Head(ts)) THEN << >> ELSE << Head(ts) >>)
         \o UncachedTags(Tail(ts))

\* _translate_tags_batch: the translated lines when the model answered with
\* as many lines as tags; the tags themselves after another number of
\* lines or an exception
_translate_tags_batch(ts, outcome) ==
    IF outcome = "ok" THEN [i \in 1..Len(ts) |-> ZhOf(ts[i])] ELSE ts

\* TagCacheManager.set_translations: one recent entry per tag, replacing the entry
\* of the same key; a later tag of the same key replaces an earlier one
RECURSIVE set_translations(_, _, _)
set_translations(entries, ts, zh) ==
    IF ts = << >> THEN entries
    ELSE set_translations(
             {c \in entries : c.key # cache_key(Head(ts))}
                 \cup {[key |-> cache_key(Head(ts)), original |-> Head(ts),
                        translation |-> Head(zh), recent |-> TRUE]},
             Tail(ts), Tail(zh))

\* translate_tags(tags) with the cache enabled: the cached tags are served
\* from the cache, the others go to the model in one request; the pairs the
\* zip of request and answer gives are written to the cache; the result
\* has one element per unique tag
translate_tags(ts, outcome) ==
    LET unique == UniqueTags(ts, {})
        uncached == UncachedTags(unique)
        answer == _translate_tags_batch(uncached, outcome)
        \* len(translated) == len(uncached_tags), else tag -> tag
        fresh == IF Len(answer) = Len(uncached) THEN answer ELSE uncached
        FreshOf(t) == fresh[CHOOSE i \in 1..Len(uncached) : uncached[i] = t]
    IN  /\ tag_calls < MaxTagCalls
        /\ tag_calls' = tag_calls + 1
        /\ tag_input' = ts
        /\ IF ts = << >>
           THEN /\ tag_result' = << >>
                /\ tag_sent' = << >>
                /\ tag_outcome' = ""
                /\ UNCHANGED tag_cache
           ELSE /\ tag_sent' = uncached
                /\ tag_outcome' = IF uncached = << >> THEN "" ELSE outcome
                /\ tag_cache' = IF uncached = << >> THEN tag_cache
                                ELSE set_translations(tag_cache, uncached, fresh)
                /\ tag_result' =
                       [i \in 1..Len(unique) |->
                           IF IsCached(unique[i]) THEN get_translation(unique[i])
                           ELSE FreshOf(unique[i])]
        /\ UNCHANGED << reorgVars, resolveVars, batchVars, pipeVars, netVars, findVars, scanVars, queryVars, trVars, nameVars >>

\* thirty days pass: TagCacheManager._is_recent no longer holds of the entries
MonthPasses ==
    /\ \E c \in tag_cache : c.recent
    /\ tag_cache' = {[c EXCEPT !.recent = FALSE] : c \in tag_cache}
    /\ UNCHANGED << reorgVars, resolveVars, batchVars, pipeVars, netVars, findVars, scanVars, queryVars, trVars, nameVars,
                    tag_calls, tag_input, tag_sent, tag_outcome, tag_result >>

InitTags ==
    /\ ReorgIdle
    /\ ResolveIdle
    /\ BatchIdle
    /\ PipeIdle
    /\ NetIdle
    /\ LaterIdle

NextTags ==
    \/ \E ts \in TagLists, outcome \in TagOutcomes : translate_tags(ts, outcome)
    \/ MonthPasses

SpecTags == InitTags /\ [][NextTags]_vars

\* ---------------------------------------------------------------------------
\* Claims about the tag translator
\* ---------------------------------------------------------------------------

\* C21: the cache holds no entry that maps a tag to itself, so a tag whose
\* request failed or came back with another number of lines is asked again
\* by a later call.  Violated: after such a request translate_tags writes
\* tag -> tag to the cache.
C21_NoFallbackEntryCached ==
    \A c \in tag_cache : c.translation # c.original

\* C26: the list translate_tags returns is as long as its input and its
\* i-th element is the translation, or the unchanged original, of the i-th
\* input tag.  Violated: the result has one element per unique non-empty
\* tag.
C26_ResultAlignedWithInput ==
    tag_calls > 0 =>
        /\ Len(tag_result) = Len(tag_input)
        /\ \A i \in 1..Len(tag_input) :
               tag_result[i] \in {ZhOf(tag_input[i]), tag_input[i]}


\* ---------------------------------------------------------------------------
\* The scan of the input directory (src/batch_scraper.py, scan_directory).
\* ---------------------------------------------------------------------------

\* the number of entries of the root directory
MaxEntries == 2

\* BatchScraper.exclude_dirs and the output_names of _is_output_directory,
\* on the lower-cased names of the model
exclude_dirs == {"tv", "output"}
output_names == {"tv"}

\* a directory of the root: its lower-cased name, whether it has a child
\* directory named tv, movies or shows, whether it has a descriptor file,
\* where its video files are (none, one or several directly in it, or only
\* deeper in the tree) and whether it has a season folder
DirEntries ==
    [kind : {"dir"}, name : {"tv", "show"}, has_tv_dir : BOOLEAN,
     has_nfo_files : BOOLEAN, videos : {"none", "one", "many", "nested"},
     season_folders : BOOLEAN, suffix : {""}]

\* a file of the root with its lower-cased suffix, or an entry that is
\* neither a directory nor a file
FileEntries ==
    [kind : {"file"}, name : {"show"}, has_tv_dir : {FALSE},
     has_nfo_files : {FALSE}, videos : {"none"}, season_folders : {FALSE},
     suffix : {"mkv", "srt", "txt"}]
     \cup
    [kind : {"other"}, name : {"show"}, has_tv_dir : {FALSE},
     has_nfo_files : {FALSE}, videos : {"none"}, season_folders : {FALSE},
     suffix : {""}]

RootEntries == DirEntries \cup FileEntries

\* _is_output_directory(directory)
_is_output_directory(d) ==
    d.has_tv_dir \/ (d.has_nfo_files /\ d.name \in output_names)

\* _is_organized_tv_show(directory)
_is_organized_tv_show(d) ==
    IF _is_output_directory(d) THEN FALSE
    ELSE IF inplace_rename THEN FALSE
    ELSE d.videos = "many" \/ d.season_folders

\* _find_video_files(directory) finds a video file anywhere in the tree
FindsVideoFiles(d) == d.videos # "none"

\* one pass of the loop of scan_directory over root_dir.iterdir()
scan_directory(item) ==
    LET p == Len(scan_seen) + 1
    IN  /\ Len(scan_seen) < MaxEntries
        /\ scan_seen' = Append(scan_seen, item)
        /\ IF item.kind = "dir"
           THEN /\ organized_shows' =
                       IF item.name \in exclude_dirs THEN organized_shows
                       ELSE IF _is_organized_tv_show(item)
                            THEN Append(organized_shows, p)
                       ELSE IF FindsVideoFiles(item)
                            THEN Append(organized_shows, p)
                       ELSE organized_shows
                /\ UNCHANGED scattered_episodes
           ELSE /\ scattered_episodes' =
                       IF item.kind = "file"
                          /\ (item.suffix \in video_extensions
                              \/ item.suffix \in subtitle_extensions)
                       THEN Append(scattered_episodes, p)
                       ELSE scattered_episodes
                /\ UNCHANGED organized_shows
        /\ UNCHANGED << reorgVars, resolveVars, batchVars, pipeVars, netVars, findVars, tagVars,
                        queryVars, trVars, nameVars, inplace_rename >>

InitScan ==
    /\ ReorgIdle
    /\ ResolveIdle
    /\ BatchIdle
    /\ PipeIdle
    /\ NetIdle
    /\ FindIdle
    /\ TagIdle
    /\ QueryIdle
    /\ TrIdle
    /\ NameIdle
    /\ inplace_rename \in BOOLEAN
    /\ scan_seen = << >>
    /\ organized_shows = << >>
    /\ scattered_episodes = << >>

NextScan == \E item \in RootEntries : scan_directory(item)

SpecScan == InitScan /\ [][NextScan]_vars

\* ---------------------------------------------------------------------------
\* Claims about the scan
\* ---------------------------------------------------------------------------

\* the positions a list of positions holds
PositionsOf(ps) == {ps[i] : i \in 1..Len(ps)}

\* C22: a directory that looks like an output directory (a tv, movies or
\* shows child, or descriptor files under an output-style name) is never
\* put in organized_shows, whether or not it holds video files.  Violated:
\* a directory refused by _is_organized_tv_show is still appended when
\* _find_video_files finds a video file in its tree.
C22_OutputDirectoryNeverAShow ==
    \A p \in 1..Len(scan_seen) :
        (scan_seen[p].kind = "dir" /\ _is_output_directory(scan_seen[p]))
            => p \notin PositionsOf(organized_shows)


\* ---------------------------------------------------------------------------
\* The start of a pipeline run by the batch driver (src/batch_scraper.py):
\* the driver builds input_data from a directory or group name and an
\* optional identifier, and the graph's search stage runs on it.
\* ---------------------------------------------------------------------------

\* the parts of a name: a title word, a year in parentheses, a bracketed
\* tag, a standalone year, a resolution, a source tag, a codec tag, and a
\* run of the separators . _ -
NameParts == {"Word", "(2020)", "[tag]", "2020", "720p", "BluRay", "x264", "."}

\* the names of the model: one part or two
ShowNames ==
    {<< a >> : a \in NameParts} \cup {<< a, b >> : a \in NameParts, b \in NameParts}

\* an Optional[int] identifier: << >> for None, else the number
OptionalIds == {<< >>} \cup {<< i >> : i \in 0..MaxId}

\* the parts the substitutions of _clean_show_name_for_search leave
RECURSIVE RemovePatterns(_)
RemovePatterns(name) ==
    IF name = << >> THEN << >>
    ELSE (IF Head(name) \in {"Word", "."} THEN << Head(name) >> ELSE << >>)
         \o RemovePatterns(Tail(name))

\* _clean_show_name_for_search(show_name): the patterns are removed, the
\* separators become spaces and the ends are stripped; "" when no title
\* word is left, else the query "q" of the model
_clean_show_name_for_search(name) ==
    IF \E i \in 1..Len(RemovePatterns(name)) : RemovePatterns(name)[i] = "Word"
    THEN "q" ELSE ""

\* input_data of the driver: a tv run with assisted search, the query, and
\* tmdb_id when local_tmdb_id is not None
InputData(query, local_tmdb_id) ==
    [query |-> query,
     tmdb_id |-> IF local_tmdb_id = << >> THEN 0 ELSE local_tmdb_id[1],
     omdb_id |-> "", media_type |-> "tv", media_type_forced |-> FALSE,
     aid_search |-> TRUE]

\* app.invoke(initial_state) of the driver: the graph starts at its search
\* stage on input_data
Invoke(entry, name, query, local_tmdb_id) ==
    /\ rpc = "idle"
    /\ q_entry' = entry
    /\ q_name' = name
    /\ q_local_id' = local_tmdb_id
    /\ input' = InputData(query, local_tmdb_id)
    /\ rpc' = "search"
    /\ UNCHANGED << reorgVars, batchVars, pipeVars, netVars, findVars, tagVars, scanVars, trVars, nameVars,
                    search, selected, error, calls, g_use_api, g_attempt, g_outcome,
                    g_result >>

\* process_organized_show(show_dir, output_base) up to the start of the
\* run: self.tmdb_id is the identifier of the command line, nfo_id what
\* _extract_tmdb_id_from_nfo gives
StartOrganizedShow(name, local_nfo, self_tmdb_id, nfo_id) ==
    LET local_tmdb_id ==
            IF local_nfo /\ self_tmdb_id = << >> THEN nfo_id ELSE << >>
        search_query ==
            IF local_tmdb_id = << >> THEN _clean_show_name_for_search(name) ELSE ""
    IN  Invoke("process_organized_show", name, search_query, local_tmdb_id)

\* _process_show_group(show_name, files, output_base) up to the start of
\* the run
StartShowGroup(name) ==
    Invoke("_process_show_group", name, _clean_show_name_for_search(name), << >>)

\* process_organized_show_inplace(show_dir, tmdb_id) up to the start of
\* the run
StartOrganizedShowInplace(name, local_nfo, tmdb_id, nfo_id) ==
    LET local_tmdb_id ==
            IF local_nfo /\ tmdb_id = << >> THEN nfo_id ELSE tmdb_id
        search_query ==
            IF local_tmdb_id # << >> THEN "" ELSE _clean_show_name_for_search(name)
    IN  Invoke("process_organized_show_inplace", name, search_query, local_tmdb_id)

InitQuery ==
    /\ ReorgIdle
    /\ ResolveIdle
    /\ ExtIdle

NextQuery ==
    \/ \E name \in ShowNames, local_nfo \in BOOLEAN, id \in OptionalIds,
          nfo_id \in OptionalIds :
           \/ StartOrganizedShow(name, local_nfo, id, nfo_id)
           \/ StartOrganizedShowInplace(name, local_nfo, id, nfo_id)
    \/ \E name \in ShowNames : StartShowGroup(name)
    \/ NextResolve

SpecQuery == InitQuery /\ [][NextQuery]_vars

\* ---------------------------------------------------------------------------
\* Claims about the start of a run
\* ---------------------------------------------------------------------------

\* the driver has started a run
RunStarted == q_entry # ""

\* C23: every run the driver starts has a non-empty query when it has no
\* direct identifier and an empty query when it has one, and a name that
\* cleans to the empty string starts no search by name.  Violated: the
\* cleaned name is passed on as the query without a test for emptiness.
C23_QueryMatchesIdentifier ==
    RunStarted =>
        /\ q_local_id = << >> => input.query # ""
        /\ q_local_id # << >> => input.query = ""
        /\ _clean_show_name_for_search(q_name) = ""
               => CallsNamed("search_tv") \cup CallsNamed("search_movie") = {}


\* ---------------------------------------------------------------------------
\* Claims about the counters of the multi-folder run
\* ---------------------------------------------------------------------------

\* the end of _run_multi_mode
MultiRunOver == batch_mode = "multi" /\ bpc = "done"

\* the units whose last processing reached 'completed' and the others
CompletedUnits == {u \in AllUnits : status[u] = "completed"}
NotCompletedUnits == AllUnits \ CompletedUnits

\* the number of times a unit was attempted: the pipeline invocations, and
\* the loose files whose move raised before the pipeline was invoked
RECURSIVE UnitsAttempted(_)
UnitsAttempted(us) ==
    IF us = {} THEN 0
    ELSE LET u == CHOOSE x \in us : TRUE
         IN  invocations[u] + (IF status[u] = "move_exception" THEN 1 ELSE 0)
             + UnitsAttempted(us \ {u})

\* the two counters add up to the number of attempts
CountersAddUp ==
    MultiRunOver => processed_count + failed_count = UnitsAttempted(AllUnits)

\* C24: at the end of a multi-folder run every unit whose processing failed
\* has incremented the failed counter and is not counted as processed, and
\* the two counters add up to the units attempted.  Violated: a loose video
\* file is counted as processed whatever its pipeline run gave.
C24_FailedUnitsCountedFailed ==
    MultiRunOver =>
        /\ failed_count >= Cardinality(NotCompletedUnits)
        /\ processed_count <= Cardinality(CompletedUnits)
        /\ processed_count + failed_count = UnitsAttempted(AllUnits)


\* ---------------------------------------------------------------------------
\* A call of LLMTranslator.translate_metadata (src/src/core/translator.py)
\* with the requests it sends to the model.
\* ---------------------------------------------------------------------------

\* the values of a text field of the record: no key, None, "", a Latin
\* text, a CJK text
FieldValues == {Absent, NoneV, Str(<< >>), Str(LatinText), Str(CjkText)}

\* the records of the model: every combination of title, plot and their
\* target-language variants
TrRecords ==
    {[NoNormalized EXCEPT !.present = TRUE, !.title = t, !.title_zh = tz,
                          !.plot = q, !.plot_zh = qz] :
        t \in FieldValues, tz \in FieldValues, q \in FieldValues, qz \in FieldValues}

\* the requests of translate_text(text): none for an empty text or a value
\* that is not a text, else the one session.post of _call_llm
TextRequests(x) == IF Truthy(x) THEN 1 ELSE 0

\* the requests of translate_metadata(data): translate_text is called for
\* each field that is in the record and has no populated variant
MetadataRequests(data) ==
    (IF data.title.p # "absent" /\ ~Truthy(data.title_zh)
     THEN TextRequests(data.title) ELSE 0)
    + (IF data.plot.p # "absent" /\ ~Truthy(data.plot_zh)
       THEN TextRequests(data.plot) ELSE 0)

\* translator.translate_metadata(data); translator_ok tells whether the
\* model answers the requests with a text
CallTranslateMetadata(translator_ok) ==
    /\ ~tr_called
    /\ tr_called' = TRUE
    /\ tr_ok' = translator_ok
    /\ tr_result' = translate_metadata(tr_data, translator_ok)
    /\ tr_requests' = MetadataRequests(tr_data)
    /\ UNCHANGED << reorgVars, resolveVars, batchVars, pipeVars, netVars, findVars, tagVars,
                    scanVars, queryVars, nameVars, tr_data >>

InitTranslate ==
    /\ ReorgIdle
    /\ ResolveIdle
    /\ BatchIdle
    /\ PipeIdle
    /\ NetIdle
    /\ FindIdle
    /\ TagIdle
    /\ ScanIdle
    /\ QueryIdle
    /\ NameIdle
    /\ tr_data \in TrRecords
    /\ tr_called = FALSE
    /\ tr_ok = FALSE
    /\ tr_result = << >>
    /\ tr_requests = 0

NextTranslate == \E translator_ok \in BOOLEAN : CallTranslateMetadata(translator_ok)

SpecTranslate == InitTranslate /\ [][NextTranslate]_vars

\* ---------------------------------------------------------------------------
\* Claims about the record translator
\* ---------------------------------------------------------------------------

\* C27: translate_metadata does not change a field that has a populated
\* target-language variant, and for a record whose title and plot both
\* have one it returns a record equal to its input and sends no request.
C27_PopulatedVariantsUntouched ==
    tr_called =>
        /\ Truthy(tr_data.title_zh) => tr_result.title_zh = tr_data.title_zh
        /\ Truthy(tr_data.plot_zh) => tr_result.plot_zh = tr_data.plot_zh
        /\ (Truthy(tr_data.title_zh) /\ Truthy(tr_data.plot_zh)) =>
               tr_result = tr_data /\ tr_requests = 0

\* the record of the test: title and plot with both variants, a model that
\* would have answered
C27_Witness ==
    /\ tr_called
    /\ tr_ok
    /\ tr_data.title = Str(LatinText)
    /\ tr_data.plot = Str(LatinText)
    /\ tr_data.title_zh = Str(CjkText)
    /\ tr_data.plot_zh = Str(CjkText)
    /\ tr_result = tr_data
    /\ tr_requests = 0

\* the record has a source title and plot and neither variant
SourceTitleAndPlotOnly ==
    /\ Truthy(tr_data.title)
    /\ Truthy(tr_data.plot)
    /\ tr_data.title_zh = Absent
    /\ tr_data.plot_zh = Absent

\* title_zh is the text the model answered for the title
TitleIsTheAnswer ==
    (tr_called /\ tr_ok /\ SourceTitleAndPlotOnly) =>
        tr_result.title_zh = Str(TranslatedText(tr_data.title.v))

\* C28: for a record with a source title and plot and no target-language
\* variant, translate_metadata sets title_zh to the model's answer and
\* sends exactly one request for the whole record.  Violated: one request
\* is sent per field.
C28_OneRequestForTheRecord ==
    (tr_called /\ tr_ok /\ SourceTitleAndPlotOnly) =>
        /\ tr_result.title_zh = Str(TranslatedText(tr_data.title.v))
        /\ tr_requests = 1


\* ---------------------------------------------------------------------------
\* The filename parser and the subtitle language detector applied to a
\* file name (src/batch_scraper.py, _parse_episode_info and
\* _detect_subtitle_language).
\* ---------------------------------------------------------------------------

\* the longest name, in tokens
MaxTokens == 2

\* the tokens of the names: words with and without a language keyword
\* (one of them inside a longer word, one in capitals), and the four
\* episode tokens with seasons and episodes 1 and 2
NameTokens ==
    {Word(w) : w \in {"show", "Friends", "EN", "zh", "ja"}}
        \cup {SE(a, b) : a \in {1, 2}, b \in {1, 2}}
        \cup {NxM(a, b) : a \in {1, 2}, b \in {1, 2}}
        \cup {SeasonTok(a) : a \in {1, 2}}
        \cup {EpisodeTok(b) : b \in {1, 2}}

FileNames == UNION {[1..n -> NameTokens] : n \in 1..MaxTokens}

\* self._parse_episode_info(filename)
ParseName ==
    /\ ~nm_parse_done
    /\ nm_parse_done' = TRUE
    /\ nm_parsed' = _parse_episode_info(nm_name)
    /\ UNCHANGED << reorgVars, resolveVars, batchVars, pipeVars, netVars, findVars, tagVars,
                    scanVars, queryVars, trVars, nm_name, nm_ext, nm_detect_done,
                    nm_language >>

\* self._detect_subtitle_language(filename)
DetectLanguage ==
    /\ ~nm_detect_done
    /\ nm_detect_done' = TRUE
    /\ nm_language' = _detect_subtitle_language(nm_name, nm_ext)
    /\ UNCHANGED << reorgVars, resolveVars, batchVars, pipeVars, netVars, findVars, tagVars,
                    scanVars, queryVars, trVars, nm_name, nm_ext, nm_parse_done,
                    nm_parsed >>

InitNames ==
    /\ ReorgIdle
    /\ ResolveIdle
    /\ BatchIdle
    /\ PipeIdle
    /\ NetIdle
    /\ FindIdle
    /\ TagIdle
    /\ ScanIdle
    /\ QueryIdle
    /\ TrIdle
    /\ nm_name \in FileNames
    /\ nm_ext \in subtitle_extensions
    /\ nm_parse_done = FALSE
    /\ nm_parsed = None
    /\ nm_detect_done = FALSE
    /\ nm_language = ""

NextNames == ParseName \/ DetectLanguage

SpecNames == InitNames /\ [][NextNames]_vars

\* ---------------------------------------------------------------------------
\* Claims about the parser and the detector
\* ---------------------------------------------------------------------------

\* the name has a token of kind k
HasToken(k) == \E i \in 1..Len(nm_name) : nm_name[i].k = k

\* the leftmost token of kind k of the name
Leftmost(k) ==
    nm_name[CHOOSE i \in 1..Len(nm_name) :
                /\ nm_name[i].k = k
                /\ \A j \in 1..(i - 1) : nm_name[j].k # k]

\* the rightmost token of kind k of the name
Rightmost(k) ==
    nm_name[CHOOSE i \in 1..Len(nm_name) :
                /\ nm_name[i].k = k
                /\ \A j \in (i + 1)..Len(nm_name) : nm_name[j].k # k]

\* a "Season N" token with an "Episode N" token somewhere after it
HasSeasonThenEpisode ==
    \E i, j \in 1..Len(nm_name) :
        i < j /\ nm_name[i].k = "SEASON" /\ nm_name[j].k = "EP"

\* C29: the parser tries its patterns in a fixed order and the first one
\* that matches anywhere in the name decides: an SxxEyy token wins over an
\* NxM token wherever the two stand, then NxM, then Season..Episode, then
\* an Episode token alone, which gives season 1; a name with none of them
\* gives no match.
C29_FirstPatternInOrderDecides ==
    nm_parse_done =>
        /\ HasToken("SE") =>
               /\ nm_parsed.k = "key"
               /\ nm_parsed.s = Leftmost("SE").s
               /\ nm_parsed.e = Leftmost("SE").e
        /\ (~HasToken("SE") /\ HasToken("X")) =>
               /\ nm_parsed.k = "key"
               /\ nm_parsed.s = Leftmost("X").s
               /\ nm_parsed.e = Leftmost("X").e
        /\ (~HasToken("SE") /\ ~HasToken("X") /\ HasSeasonThenEpisode) =>
               /\ nm_parsed.k = "key"
               /\ nm_parsed.s = Leftmost("SEASON").s
               /\ nm_parsed.e = Rightmost("EP").e
        /\ (~HasToken("SE") /\ ~HasToken("X") /\ ~HasSeasonThenEpisode
              /\ HasToken("EP")) =>
               /\ nm_parsed.k = "key"
               /\ nm_parsed.s = 1
               /\ nm_parsed.e = Leftmost("EP").e
        /\ (~HasToken("SE") /\ ~HasToken("X") /\ ~HasToken("EP")) =>
               nm_parsed = None

\* an NxM token stands before an SxxEyy token of another episode, and the
\* parser gave the episode of the SxxEyy token
C29_Witness ==
    /\ nm_parse_done
    /\ nm_name = << NxM(1, 2), SE(2, 1) >>
    /\ nm_parsed = [k |-> "key", s |-> 2, e |-> 1]

\* an Episode token alone gives season 1
C29_WitnessEpisodeOnly ==
    /\ nm_parse_done
    /\ nm_name = << Word("show"), EpisodeTok(2) >>
    /\ nm_parsed = [k |-> "key", s |-> 1, e |-> 2]

\* an indicator of the list is a substring of the lower-cased file name
NameHas(indicators) ==
    \E ind \in indicators :
        \/ \E i \in 1..Len(nm_name) : IsSubstring(ind, TokenChars(nm_name[i]))
        \/ IsSubstring(ind, LowerChars(nm_ext))

\* C30: the detector gives 'zh' whenever a Chinese keyword is a substring
\* of the lower-cased name, even with English or Japanese keywords in it,
\* else 'en' if an English keyword is, else 'ja' if a Japanese keyword is,
\* else ''.
C30_LanguagePriority ==
    nm_detect_done =>
        /\ NameHas(chinese_indicators) => nm_language = "zh"
        /\ (~NameHas(chinese_indicators) /\ NameHas(english_indicators)) =>
               nm_language = "en"
        /\ (~NameHas(chinese_indicators) /\ ~NameHas(english_indicators)
              /\ NameHas(japanese_indicators)) => nm_language = "ja"
        /\ (~NameHas(chinese_indicators) /\ ~NameHas(english_indicators)
              /\ ~NameHas(japanese_indicators)) => nm_language = ""

\* a name with an English keyword in capitals before a Chinese keyword
C30_Witness ==
    /\ nm_detect_done
    /\ nm_name = << Word("EN"), Word("zh") >>
    /\ nm_language = "zh"


\* ---------------------------------------------------------------------------
\* Further claims about the resolver
\* ---------------------------------------------------------------------------

\* the candidate was taken from the results of the movie search that
\* followed an empty TV search
CandidateFromMovieFallback ==
    /\ rpc = "fetch"
    /\ ~input.media_type_forced
    /\ ~search.skip_search
    /\ search.performed_search_type = "movie"
    /\ ~WebSearchCalled

\* C31: a candidate taken from the movie search that followed an empty TV
\* search has media_type 'movie' and fetch asks for movie details,
\* whatever media_type the input declared.  Violated: the search results
\* carry no media_type and the candidate is labelled with the input's.
C31_CandidateCarriesSearchType ==
    CandidateFromMovieFallback =>
        /\ selected.media_type = "movie"
        /\ FetchMediaType = "movie"


\* C32: when a TMDB ID is supplied together with a query, the candidate
\* handed to fetch always has that ID.  Violated: when the ID is not among
\* the search results and the caller opted in, the candidate is built from
\* the identifier the web search found.
C32_SelectedHasSuppliedId ==
    (input.tmdb_id # 0 /\ input.query # "" /\ rpc = "fetch") =>
        selected.id = input.tmdb_id

\* without the web search the candidate has the supplied ID
SuppliedIdWithoutWebSearch ==
    (input.tmdb_id # 0 /\ input.query # "" /\ rpc = "fetch" /\ ~WebSearchCalled) =>
        selected.id = input.tmdb_id


\* ---------------------------------------------------------------------------
\* A whole run of the graph: the resolver, then the nodes from fetch on
\* (src/src/app/graph.py, create_graph).
\* ---------------------------------------------------------------------------

\* the world of a whole run: one title with a usable date, and a provider
\* that answers the detail requests or fails them for every locale
WholeRunWorlds ==
    {World(MainData(Str(LatinText), Str(LatinText), Str(DateGood), Absent,
                    NoTranslation), OneSeason, f) : f \in {"none", "details"}}

\* the inputs of a whole run: every input with a TMDB ID and no query, and
\* one input with a query, a forced type and the web search allowed
WholeRunInputs ==
    {i \in Inputs : i.query = "" /\ i.tmdb_id # 0 /\ i.omdb_id = ""}
        \cup {[query |-> "q", tmdb_id |-> 0, omdb_id |-> "", media_type |-> "tv",
               media_type_forced |-> TRUE, aid_search |-> TRUE]}

\* app.invoke(initial_state): the graph is at its search stage
InitWholeRun ==
    /\ ReorgIdle
    /\ BatchIdle
    /\ NetIdle
    /\ LaterIdle
    /\ input \in WholeRunInputs
    /\ rpc = "search"
    /\ search = NoSearch
    /\ selected = NoCandidate
    /\ error = ""
    /\ calls = << >>
    /\ g_use_api = FALSE
    /\ g_attempt = 0
    /\ g_outcome = NoOutcome
    /\ g_result = NoResult
    /\ skip_images \in BOOLEAN
    /\ translate_enabled = FALSE
    /\ target_language = "en-US"
    /\ world \in WholeRunWorlds
    /\ source_data = NoSourceData
    /\ normalized = NoNormalized
    /\ artwork = NoArtwork
    /\ nfo = NoNfo
    /\ output = NoOutput
    /\ active = {"fetch"}
    /\ finished = {}
    /\ pending = << >>
    /\ ran = [n \in Nodes |-> 0]
    /\ perr = ""
    /\ files_written = {}
    /\ requests = << >>

\* the edge select_candidate -> fetch: the nodes from fetch on run once
\* select_candidate_node has returned a candidate
AfterResolver == rpc = "fetch" /\ NextPipeline

NextWholeRun == NextResolve \/ AfterResolver

SpecWholeRun == InitWholeRun /\ [][NextWholeRun]_vars

\* ---------------------------------------------------------------------------
\* Claims about a whole run
\* ---------------------------------------------------------------------------

\* a TMDB ID was supplied without a query, and the detail request of fetch
\* failed for every locale
DirectIdNotResolved ==
    /\ input.tmdb_id # 0
    /\ input.query = ""
    /\ Started("fetch")
    /\ world.fails = "details"

\* C33: a supplied TMDB ID whose details the provider does not give makes
\* the run fail at fetch: no catalog search, cross-reference lookup or web
\* search is made, no later node runs and the run does not reach
\* 'completed'.
C33_UnresolvedDirectIdFailsAtFetch ==
    DirectIdNotResolved =>
        /\ perr # ""
        /\ calls = << >>
        /\ rpc = "fetch"
        /\ selected.id = input.tmdb_id
        /\ \A n \in Nodes \ {"fetch"} : ~Started(n)
        /\ output.status # "completed"
        /\ ~ENABLED NextWholeRun

\* the run of a direct ID has failed at fetch
C33_Witness ==
    /\ DirectIdNotResolved
    /\ perr = "Failed to fetch details"
    /\ calls = << >>
    /\ output = NoOutput


\* the run was given an identifier of the secondary catalog and nothing else
OmdbIdOnly == input.query = "" /\ input.tmdb_id = 0 /\ input.omdb_id # ""

\* the results find_by_imdb_id gave for the requested media type
RequestedResults ==
    IF MediaType("tv") = "movie" THEN find_result[1].movie_results
    ELSE find_result[1].tv_results

\* the results it gave for the other media type
OtherResults ==
    IF MediaType("tv") = "movie" THEN find_result[1].tv_results
    ELSE find_result[1].movie_results

\* C34: with only an identifier of the secondary catalog supplied, the
\* candidate is the first cross-reference result of the requested media type,
\* labelled with that type; when the cross-reference has no result of that
\* type the run ends in the error and nothing is selected, whatever it has for
\* the other type.
C34_CrossReferenceOfRequestedType ==
    (OmdbIdOnly /\ find_result # << >> /\ find_result[1].ok) =>
        IF RequestedResults # << >>
        THEN /\ rpc = "fetch"
             /\ selected.id = RequestedResults[1].id
             /\ selected.media_type = MediaType("tv")
        ELSE /\ rpc = "error"
             /\ error = "No TMDB ID found for OMDB ID"
             /\ selected = NoCandidate

C34_Witness ==
    /\ OmdbIdOnly
    /\ find_result # << >>
    /\ find_result[1].ok
    /\ RequestedResults = << >>
    /\ OtherResults # << >>
    /\ rpc = "error"
    /\ selected = NoCandidate

C34_WitnessFirstOfTwo ==
    /\ OmdbIdOnly
    /\ find_result # << >>
    /\ Len(RequestedResults) = 2
    /\ RequestedResults[1].id # RequestedResults[2].id
    /\ OtherResults # << >>
    /\ rpc = "fetch"
    /\ selected.id = RequestedResults[1].id


\* ---- further claims about the canonical record

\* normalize_tmdb_movie / normalize_tmdb_tv, the step before the translations
\* block: title_zh and plot_zh as the test for CJK characters sets them
ScriptDetectedTitle(data) ==
    IF HasCjk(Get(data.title, Str(<< >>)).v) THEN Get(data.title, Str(<< >>)) ELSE Absent
ScriptDetectedPlot(data) ==
    IF HasCjk(Get(data.overview, Str(<< >>)).v) THEN Get(data.overview, Str(<< >>)) ELSE Absent

\* C35: a field of the canonical record that one step has populated is not
\* None or empty after the later steps; here the target-language title and
\* plot that the test for CJK characters has set are still populated in the
\* record normalize_node returns, whatever the translations block holds.
C35_PopulatedFieldsStayPopulated ==
    normalized.present =>
        /\ Truthy(ScriptDetectedTitle(source_data.main)) => Truthy(normalized.title_zh)
        /\ Truthy(ScriptDetectedPlot(source_data.main)) => Truthy(normalized.plot_zh)


\* ---- the episode map of _organize_show_files (src/batch_scraper.py)
MaxListed == 2

\* entries of source_data["episodes"] and of source_data["translated_episodes"]
RawEntries ==
    { Episode(1, e, << Word(n) >>, << >>) : e \in 1..2, n \in {"Pilot", "Two"} }
TranslatedEntries ==
    { Episode(1, e, << Word("Pilot") >>, << Word("Zh") >>) : e \in 1..2 }
ListsOf(S) == UNION { [1..n -> S] : n \in 0..MaxListed }

\* a show directory with a video of episode 1x01, its subtitle and a
\* subtitle without episode information, and the lists the pipeline hands over
InitEpisodeMap ==
    /\ ResolveIdle
    /\ ExtIdle
    /\ mode \in {"copy", "move", "inplace"}
    /\ LET files == { Show(<<Word("show"), SE(1, 1)>>, "mkv"),
                      Show(<<Word("show"), SE(1, 1)>>, "srt"),
                      Show(<<Word("special")>>, "srt") }
       IN  /\ disk = { [p |-> f, c |-> f] : f \in files }
           /\ discovered = files
    /\ show_exists = TRUE
    /\ show_title = <<Word("show")>>
    /\ episodes_data \in ListsOf(RawEntries)
    /\ translated_episodes \in ListsOf(TranslatedEntries)
    /\ video_files = <<>>
    /\ subtitle_files = <<>>
    /\ pc = "start"
    /\ vi = 1
    /\ sj = 1
    /\ moved_files = <<>>
    /\ failed_moves = 0
    /\ renamed_count = 0
    /\ skipped_count = 0
    /\ run = 1
    /\ moves = 0
    /\ io_failures = 0
    /\ visited = {}
    /\ written = {}
    /\ clean = TRUE
    /\ rmtree_result = "none"

SpecEpisodeMap == InitEpisodeMap /\ [][NextReorg]_vars

\* the map has been built: the reorganizer is past its head and did not return
MapBuilt == pc \notin {"start", "returned"}

\* the last entry of the raw list with key k
LastRawOf(k) ==
    episodes_data[CHOOSE i \in 1..Len(episodes_data) :
                     /\ KeyOf(episodes_data[i]) = k
                     /\ \A j \in (i + 1)..Len(episodes_data) : KeyOf(episodes_data[j]) # k]

TranslatedKeys == { KeyOf(translated_episodes[i]) : i \in 1..Len(translated_episodes) }

\* C36: the keys of the episode map are the keys of the raw episode list;
\* the translated entries add no key; the entry of a key is the last raw entry
\* with that key, the translated name apart.
C36_MapKeysAreRawKeys ==
    MapBuilt =>
        /\ DOMAIN episode_map = EpisodeKeys
        /\ \A k \in DOMAIN episode_map :
              [episode_map[k] EXCEPT !.name_zh = << >>] = LastRawOf(k)

C36_Witness ==
    /\ MapBuilt
    /\ Len(episodes_data) = 2
    /\ KeyOf(episodes_data[1]) = KeyOf(episodes_data[2])
    /\ episodes_data[1].name # episodes_data[2].name
    /\ TranslatedKeys \ EpisodeKeys # {}
    /\ TranslatedKeys \cap EpisodeKeys # {}
    /\ episode_map[KeyOf(episodes_data[2])].name = episodes_data[2].name
    /\ episode_map[KeyOf(episodes_data[2])].name_zh = << Word("Zh") >>


\* ---- further claims about the reorganizer

\* C37: when an output-mode run has ended its loops, the files it counts as
\* succeeded and the files it counts as failed add up to the number of
\* discovered video and subtitle files.
C37_EveryFileCountedOnce ==
    (IsOutputMode /\ pc = "done") =>
        Len(moved_files) + failed_moves = Len(video_files) + Len(subtitle_files)


\* ---- a show directory organized with the result of a run
\* (process_organized_show of src/batch_scraper.py)

\* the catalog's seasons: the specials (season 0) and at most one regular
\* season
SpecialsSeason == Season_(0, TRUE, << Episode_(1, TRUE) >>)
SeasonsWithSpecials ==
    { << SpecialsSeason >> \o s : s \in RegularSeasons(0) \cup RegularSeasons(1) }
        \cup RegularSeasons(1)

\* the show directory: a special with its subtitle and the first episode
SpecialVideo == Show(<<Word("show"), SE(0, 1)>>, "mkv")
SpecialSubtitle == Show(<<Word("show"), SE(0, 1)>>, "srt")
SpecialFiles == { SpecialVideo, SpecialSubtitle }
ShowWithSpecial == SpecialFiles \cup { Show(<<Word("show"), SE(1, 1)>>, "mkv") }

InitOrganized ==
    /\ InitRun
    /\ selected.media_type = "tv"
    /\ ~translate_enabled
    /\ target_language = "en-US"
    /\ world \in { World(MainData(Str(LatinText), Str(LatinText), Str(DateGood), Absent,
                                  NoTranslation), s, "none") : s \in SeasonsWithSpecials }

\* a text in the file names of the reorganizer, character by character; None
\* is formatted as the word None
Chr(c) == [k |-> "C", c |-> c]
TextTokens(x) ==
    IF x.p = "none" THEN <<Word("None")>>
    ELSE [i \in 1..Len(x.v) |-> Chr(x.v[i])]

\* the entries of source_data["episodes"] as the reorganizer reads them
AsEpisodes(eps) ==
    [i \in 1..Len(eps) |->
        Episode(eps[i].season_number, eps[i].episode_number, <<Word("Pilot")>>, <<>>)]

\* translate_node: with translation enabled and a Chinese target every entry
\* of translated_episodes is the episode with name_zh set to the translated
\* name (the name itself when the translator fails); else it is the episode
TranslatesEpisodes == translate_enabled /\ target_language \in {"zh-CN", "zh-TW"}
AsTranslatedEpisodes(eps) ==
    [i \in 1..Len(eps) |->
        LET ep == AsEpisodes(eps)[i]
        IN  IF TranslatesEpisodes
            THEN [ep EXCEPT
                    !.name_zh = IF TranslatorWorks THEN << Chr(35695) >> \o ep.name
                                ELSE ep.name,
                    !.has_name_zh = TRUE]
            ELSE ep]

\* process_organized_show: _generate_show_metadata returned the result of a
\* completed run, _organize_show_files starts on the show directory
StartOrganizeShowFiles ==
    /\ pc = "idle"
    /\ active = {}
    /\ output.status = "completed"
    /\ \E m \in {"copy", "move"} : mode' = m
    /\ disk' = { [p |-> f, c |-> f] : f \in ShowWithSpecial }
    /\ discovered' = ShowWithSpecial
    /\ show_title' = TextTokens(ShowTitleOf(normalized, ShowDirName))
    /\ episodes_data' = AsEpisodes(source_data.episodes)
    /\ translated_episodes' = AsTranslatedEpisodes(source_data.translated_episodes)
    /\ pc' = "start"
    /\ UNCHANGED << show_exists, video_files, subtitle_files, vi, sj, moved_files,
                    failed_moves, renamed_count, skipped_count, run, moves, io_failures,
                    visited, written, clean, rmtree_result, resolveVars, extVars >>

\* the run of the pipeline, then _organize_show_files in its copy or move mode
NextOrganized ==
    \/ NextPipeline
    \/ StartOrganizeShowFiles
    \/ Discover
    \/ OrgVideo
    \/ OrgMatchSubtitle
    \/ OrgRemainSubtitle
    \/ OrgFinish

SpecOrganized == InitOrganized /\ [][NextOrganized]_vars

MaxNfoFiles == 2

\* nfo_tasks: one task for every NFO file with a TMDB ID, subdirectory after
\* subdirectory; count[u] is the number of such files in subdirectory u
RECURSIVE TasksOf(_, _)
TasksOf(dirs, count) ==
    IF dirs = << >> THEN << >>
    ELSE [i \in 1..count[Head(dirs)] |-> Head(dirs)] \o TasksOf(Tail(dirs), count)

InitMulti ==
    /\ ReorgIdle
    /\ ResolveIdle
    /\ PipeIdle
    /\ NetIdle
    /\ LaterIdle
    /\ batch_mode = "multi"
    /\ use_local_nfo \in BOOLEAN
    /\ unit_kind \in UnitKinds("multi")
    /\ subdirs = UnitsOfKind("subdir")
    /\ \E count \in [{ u \in DOMAIN unit_kind : unit_kind[u] = "subdir" } -> 0..MaxNfoFiles] :
          nfo_tasks = IF use_local_nfo THEN TasksOf(UnitsOfKind("subdir"), count) ELSE << >>
    /\ bpc = "nfo"
    /\ bi = 1
    /\ processed_count = 0
    /\ failed_count = 0
    /\ invocations = [u \in DOMAIN unit_kind |-> 0]
    /\ file_ops = [u \in DOMAIN unit_kind |-> 0]
    /\ status = [u \in DOMAIN unit_kind |-> "none"]

NextMulti ==
    \/ RunNfoTask
    \/ RunSubdir
    \/ _process_loose_video_file
    \/ NextLoop

SpecMulti == InitMulti /\ [][NextMulti]_vars

\* C39: in multi-mode a subdirectory that was processed successfully is not
\* processed again: no later identifier task and no pass of the name-based
\* loop runs the pipeline on it once more.
C39_SucceededSubdirNotProcessedAgain ==
    [][\A u \in DOMAIN unit_kind :
          (unit_kind[u] = "subdir" /\ status[u] = "completed")
              => invocations'[u] = invocations[u]]_vars

\* the part that holds: the name-based loop leaves out the subdirectories an
\* identifier task has processed successfully
NameBasedPassSkipsSucceeded ==
    [][\A u \in DOMAIN unit_kind :
          (bpc = "subdirs" /\ status[u] = "completed")
              => invocations'[u] = invocations[u]]_vars


\* ---- the names of the episode descriptor and of the episode's video
InitStems ==
    /\ InitRun
    /\ selected.media_type = "tv"
    /\ world \in { World(m, OneSeason, f) : m \in MainDatas, f \in {"none", "translator"} }

SpecStems == InitStems /\ [][NextOrganized]_vars

\* write_output_node and write_episode_nfo: the stem of the descriptor of the
\* episode a file name stands for, f"{title} - S{season:02d}E{episode:02d} -
\* {safe_episode_title}" with title = normalized.get("title", "Unknown") and
\* the "name" of the entry of translated_episodes
Unknown == << 85, 110, 107, 110, 111, 119, 110 >>
WrittenEpisode(info) ==
    translated_episodes[CHOOSE i \in 1..Len(translated_episodes) :
                           KeyOf(translated_episodes[i]) = info]
EpisodeNfoStem(info) ==
    TextTokens(Get(normalized.title, Str(Unknown))) \o <<SE(info.s, info.e)>>
        \o SafeEpisodeTitle(WrittenEpisode(info).name)

\* C40: the video of an episode is placed under the stem of the descriptor
\* file the pipeline wrote for that episode.
C40_VideoAndDescriptorShareStem ==
    \A w \in written :
        w.src.ext \in video_extensions
            => w.dst.name = EpisodeNfoStem(_parse_episode_info(w.src.name))

\* the part that holds: without a target-language title in the canonical
\* record and without translated episode names the stems are the same
StemsAgreeWithoutTargetLanguage ==
    (normalized.title_zh.p = "absent" /\ ~TranslatesEpisodes) => C40_VideoAndDescriptorShareStem

====
